---- MODULE Spec2Model ----
(***************************************************************************)
(* A model of sentry's cross-silo RPC layer                                *)
(* (src/src/sentry/services/hybrid_cloud/rpc.py): request signing and      *)
(* verification, delegate selection per silo mode, and the remote call     *)
(* pipeline.                                                               *)
(*                                                                         *)
(* Text is a sequence of one-character strings, so that "rpc0:abc" is      *)
(* <<"r","p","c","0",":","a","b","c">>.                                    *)
(***************************************************************************)
EXTENDS Integers, Sequences, FiniteSets, TLC

VARIABLES
    secrets,     \* settings.RPC_SHARED_SECRET: a list of keys, <<>> when unset
    outReq,      \* the (path, body) of the request this process signs
    inReq,       \* the (path, body) of the request that arrives for verification
    issued,      \* the last tag generate_request_signature returned, and its signer
    authCall,    \* the last call of the request authenticator and its outcome
    siloMode,    \* SiloMode.get_current_mode() of this process
    local_mode,  \* the local_mode class attribute of every service class
    registry,    \* _global_service_registry: key -> facade
    call,        \* the service call in progress (or the last one) and its position
    lastCreated, \* history: per key, the class and nonlocal_class of the latest create_delegation
    decl,        \* the class statement of an RpcService subclass being executed
    defn,        \* what executing the class statement and using the class produced
    inbound,     \* the last dispatch_to_local_service call and its outcome
    codec,       \* a signature, an argument set and what the codec made of them
    env,         \* the process's settings: test environment or not, control silo address
    job,         \* a run of the cleanup command: its options and the queries it issued
    cond,        \* a DataCondition row and the last evaluation made of it
    pool,        \* the cleanup command's task queue, its workers and its main process
    grant,       \* a refresh-token exchange: the rows it reads, its steps and its outcome
    rules,       \* the rules and metric alerts created for new projects
    impl         \* a local implementation class and what validating it gave

authVars == <<secrets, outReq, inReq, issued, authCall>>
rpcVars == <<siloMode, local_mode, registry, call, lastCreated, env>>
otherVars == <<decl, defn, inbound, codec>>
cmdVars == <<job, cond, pool, grant, rules, impl>>

\* No command is running.
NoJob == [phase |-> "idle", project |-> "", filtered |-> {}, project_id |-> "None",
          deletes |-> <<>>, nodestore |-> FALSE, queries |-> {}]
NoCond == [stage |-> "idle", condition |-> "", type |-> "", comparison |-> [t |-> "none", n |-> 0],
           condition_result |-> [t |-> "none", n |-> 0], value |-> [t |-> "none", n |-> 0],
           exc |-> "", result |-> [t |-> "none", n |-> 0]]
NoPool == [pc |-> "idle", concurrency |-> 0, stage |-> 0, chunks |-> 0, queue |-> <<>>,
           next |-> 1, unfinished |-> 0, taken |-> {}, acked |-> <<>>, worker |-> <<>>,
           sentinels |-> 0, joined |-> 0, raised |-> FALSE]
NoGrant == [stage |-> "idle", refresh_token |-> "", client_id |-> "", checks |-> FALSE,
            install |-> FALSE, tokens |-> {}, api_token |-> "", steps |-> <<>>,
            exc |-> "", result |-> ""]
NoSignal == [project |-> "", default_rules |-> FALSE, feature |-> FALSE, alert |-> "",
             high_priority |-> FALSE]
NoRules == [signals |-> 0, rule |-> <<>>, alerts |-> 0, made |-> <<>>, last |-> NoSignal,
            exc |-> ""]
NoImpl == [stage |-> "idle", methods |-> <<>>, exc |-> "", delegate |-> "none"]
IdleCommands ==
    /\ job = NoJob /\ cond = NoCond /\ pool = NoPool /\ grant = NoGrant /\ rules = NoRules
    /\ impl = NoImpl
vars == <<secrets, outReq, inReq, issued, authCall, siloMode, local_mode, registry, call,
          lastCreated, decl, defn, inbound, codec, env, job, cond, pool, grant, rules, impl>>

----------------------------------------------------------------------------
(* Bounds *)

\* Largest request, in bytes of path and body together.
MaxLen == 1
\* Longest list of shared secrets.
MaxSecrets == 2
\* Most deletion chunks one cleanup run enqueues.
MaxChunks == 2
\* Most project_created signals sent.
MaxSignals == 2

----------------------------------------------------------------------------
(* Text helpers *)

Range(s) == {s[i] : i \in 1..Len(s)}

\* Python's str.startswith.
StartsWith(s, p) == Len(s) >= Len(p) /\ SubSeq(s, 1, Len(p)) = p

\* Index of the first occurrence of the character sep in s, 0 when absent.
FindChar(s, sep) ==
    IF \E i \in 1..Len(s) : s[i] = sep
    THEN CHOOSE i \in 1..Len(s) : s[i] = sep /\ \A j \in 1..(i - 1) : s[j] # sep
    ELSE 0

\* Python's str.split(sep, maxsplit): at most maxsplit cuts, from the left.
RECURSIVE Split(_, _, _)
Split(s, sep, maxsplit) ==
    LET i == FindChar(s, sep) IN
    IF maxsplit = 0 \/ i = 0
    THEN <<s>>
    ELSE <<SubSeq(s, 1, i - 1)>> \o Split(SubSeq(s, i + 1, Len(s)), sep, maxsplit - 1)

----------------------------------------------------------------------------
(* Request authenticator *)

\* The bytes paths and bodies are made of.
Byte == {":", "a"}
\* The shared secrets a deployment may configure.
Keys == {"k1", "k2", "k3"}

Texts == UNION {[1..n -> Byte] : n \in 0..MaxLen}
Requests ==
    {r \in [path : Texts, body : Texts] : Len(r.path) + Len(r.body) <= MaxLen}

SecretLists ==
    {s \in UNION {[1..n -> Keys] : n \in 0..MaxSecrets} :
        \A i, j \in 1..Len(s) : i # j => s[i] # s[j]}

\* The version token and its separator, "rpc0:".
Prefix == <<"r", "p", "c", "0", ":">>

\* A signature input that leaves the path out.
SignatureInput_BodyOnly(url, body) == <<":">> \o body

\* b"%s:%s" % (url.encode("utf8"), body)
SignatureInput(url, body) == url \o <<":">> \o body

\* hmac.new(key, msg, sha256).hexdigest(), taken as collision-free: the model's
\* digest spells out the key and the hex code of every byte of the message, so
\* distinct (key, message) pairs have distinct digests, and a digest is made of
\* hex digits only (it never holds a ':').
HexOfKey(key) ==
    IF key = "k1" THEN <<"0", "1">> ELSE IF key = "k2" THEN <<"0", "2">> ELSE <<"0", "3">>
\* ':' is 3a and 'a' is 61; every other token of a path or body stands for its own
\* hex code.
HexOfByte(b) == IF b = ":" THEN <<"3", "a">> ELSE IF b = "a" THEN <<"6", "1">> ELSE <<b>>
RECURSIVE HexOfBytes(_)
HexOfBytes(msg) ==
    IF msg = <<>> THEN <<>> ELSE HexOfByte(Head(msg)) \o HexOfBytes(Tail(msg))
HexDigest(key, msg) == HexOfKey(key) \o HexOfBytes(msg)

\* hmac.compare_digest: equality of the two byte strings.
compare_digest(a, b) == a = b

SignOk(t) == [exc |-> "", tag |-> t]
SignRaise(e) == [exc |-> e, tag |-> <<>>]
CmpOk(b) == [exc |-> "", ok |-> b]
CmpRaise(e) == [exc |-> e, ok |-> FALSE]

\* A signer that takes the newest entry at the end of the list.
generate_request_signature_Last(shared, url_path, body) ==
    IF shared = <<>>
    THEN SignRaise("RpcAuthenticationSetupException")
    ELSE SignOk(Prefix \o HexDigest(shared[Len(shared)], url_path \o <<":">> \o body))

generate_request_signature(shared, url_path, body) ==
    IF shared = <<>>
    THEN SignRaise("RpcAuthenticationSetupException")
    ELSE LET secret == shared[1]
             signature == HexDigest(secret, SignatureInput(url_path, body))
         IN  SignOk(Prefix \o signature)

\* The digests of `signature_data` under the configured secrets, as lines 736-748.
MatchesAny(shared, url, body, signature_data) ==
    \E i \in 1..Len(shared) :
        compare_digest(HexDigest(shared[i], SignatureInput(url, body)), signature_data)

\* A verifier that tries the signing secret only.
compare_signature_FirstKey(shared, url, body, signature) ==
    IF shared = <<>>
    THEN CmpRaise("RpcAuthenticationSetupException")
    ELSE IF ~StartsWith(signature, Prefix)
    THEN CmpOk(FALSE)
    ELSE LET parts == Split(signature, ":", 2) IN
         IF Len(parts) # 2
         THEN CmpRaise("ValueError")
         ELSE CmpOk(compare_digest(HexDigest(shared[1], SignatureInput(url, body)),
                                   parts[2]))

\* A verifier that does not look at the version token.
compare_signature_AnyVersion(shared, url, body, signature) ==
    IF shared = <<>>
    THEN CmpRaise("RpcAuthenticationSetupException")
    ELSE LET parts == Split(signature, ":", 2) IN
         IF Len(parts) # 2
         THEN CmpRaise("ValueError")
         ELSE CmpOk(MatchesAny(shared, url, body, parts[2]))

\* A verifier that does not check that a secret is configured.
compare_signature_NoSetupCheck(shared, url, body, signature) ==
    IF ~StartsWith(signature, Prefix)
    THEN CmpOk(FALSE)
    ELSE LET parts == Split(signature, ":", 2) IN
         IF Len(parts) # 2
         THEN CmpRaise("ValueError")
         ELSE CmpOk(MatchesAny(shared, url, body, parts[2]))

compare_signature(shared, url, body, signature) ==
    IF shared = <<>>
    THEN CmpRaise("RpcAuthenticationSetupException")
    ELSE IF ~StartsWith(signature, Prefix)
    THEN CmpOk(FALSE)
    ELSE LET parts == Split(signature, ":", 2) IN
         \* `_, signature_data = ...` unpacks exactly two parts
         IF Len(parts) # 2
         THEN CmpRaise("ValueError")
         ELSE LET signature_data == parts[2]
              IN  CmpOk(MatchesAny(shared, url, body, signature_data))

----------------------------------------------------------------------------
(* Service contracts *)

SiloModes == {"MONOLITH", "CONTROL", "REGION"}

\* The base service classes of the model. S1 and S2 declare the same key.
ClassIds == {"S1", "S2", "S3"}
ServiceKeys == {"a", "b"}
KeyOf(c) == IF c = "S3" THEN "b" ELSE "a"

\* The values local_mode takes over the classes: S1 may be at home anywhere.
LocalModeTables ==
    {f \in [ClassIds -> SiloModes] : f["S2"] = "REGION" /\ f["S3"] = "CONTROL"}

\* Every method below carries the @rpc_method mark (_get_all_rpc_methods).
MethodNames == {"get", "update", "ping"}

\* __isabstractmethod__ of the method on the base class.
IsAbstract(c, m) == IF c = "S2" THEN TRUE ELSE m \in {"get", "update"}

_get_abstract_rpc_methods(c) == {m \in MethodNames : IsAbstract(c, m)}

\* The region resolver of the method's signature (_extract_region_resolution):
\* a defined class has one on every RPC method exactly when it is a region service.
HasRegionResolution(c, m) == local_mode[c] = "REGION"

\* return_none_if_mapping_not_found, which only @regional_rpc_method sets.
OptionalReturn(c, m) ==
    /\ HasRegionResolution(c, m)
    /\ IF c = "S2" THEN m = "update" ELSE m = "get"

\* The declared return annotation: None (void), Optional[int] or int.
ReturnType(c, m) ==
    IF m = "update" THEN "None"
    ELSE IF m = "get" THEN (IF c = "S2" THEN "int" ELSE "Optional[int]")
    ELSE "int"

----------------------------------------------------------------------------
(* Values, arguments and the signature codec *)

NoneV == [t |-> "none", v |-> ""]
IntV == [t |-> "int", v |-> "1"]
StrV == [t |-> "str", v |-> "x"]
Values == {NoneV, IntV, StrV}

\* Every RPC method of the model declares (self, *, organization_id: int).
ParamNames == {"organization_id"}
NoArgs == [n \in {} |-> NoneV]
Kwargs == UNION {[d -> {IntV, StrV}] : d \in SUBSET ParamNames}

\* Further values the codec meets: a numeric string, an RpcModel instance, the
\* dict such an instance dumps to, and lists.
NumStrV == [t |-> "str", v |-> "1"]
ModelV == [t |-> "model", v |-> "x"]
DictV == [t |-> "dict", v |-> "x"]
ListV(items) == [t |-> "list", items |-> items]

\* Longest list argument.
MaxItems == 1
Scalars == {NoneV, IntV, StrV, NumStrV, ModelV, DictV}
Lists == {ListV(items) : items \in UNION {[1..n -> {IntV, NumStrV, StrV}] : n \in 0..MaxItems}}
ArgValues == Scalars \cup Lists

\* A field of a parameter model: its annotation, and its default when it has one.
FieldTypes == {"int", "Optional[int]", "List[int]", "RpcThing"}
Required(type) == [type |-> type, required |-> TRUE, default |-> NoneV]
WithDefault(type, default) == [type |-> type, required |-> FALSE, default |-> default]

ValidOk(value) == [ok |-> TRUE, value |-> value]
Invalid == [ok |-> FALSE, value |-> NoneV]

\* pydantic's validation of one int: an int stays, a numeric string is converted.
validate_int(val) ==
    IF val.t = "int" THEN ValidOk(val)
    ELSE IF val = NumStrV THEN ValidOk(IntV)
    ELSE Invalid

\* pydantic's validation of one value against a field type: a model field takes
\* an instance or the dict of one, a list field validates every item.
validate(type, val) ==
    IF type = "int" THEN validate_int(val)
    ELSE IF type = "Optional[int]"
    THEN IF val = NoneV THEN ValidOk(NoneV) ELSE validate_int(val)
    ELSE IF type = "RpcThing"
    THEN IF val \in {ModelV, DictV} THEN ValidOk(ModelV) ELSE Invalid
    ELSE IF val.t # "list" THEN Invalid
    ELSE IF \E i \in 1..Len(val.items) : ~validate_int(val.items[i]).ok THEN Invalid
    ELSE ValidOk(ListV([i \in 1..Len(val.items) |-> validate_int(val.items[i]).value]))

\* pydantic's check of one int field.
FieldOk(val) == validate("int", val).ok

\* BaseModel.dict(): a nested model becomes a dict, everything else stays.
dict(val) == IF val = ModelV THEN DictV ELSE val

\* Building the parameter model from named values: every declared field is
\* validated or takes its default, undeclared names are ignored, and a missing
\* required field or an invalid value is an error.
parameter_model(schema, values) ==
    IF \E n \in DOMAIN schema :
           IF n \in DOMAIN values THEN ~validate(schema[n].type, values[n]).ok
           ELSE schema[n].required
    THEN [ok |-> FALSE, fields |-> NoArgs]
    ELSE [ok |-> TRUE,
          fields |-> [n \in DOMAIN schema |->
                         IF n \in DOMAIN values
                         THEN validate(schema[n].type, values[n]).value
                         ELSE schema[n].default]]

\* RpcMethodSignature.serialize_arguments, for a signature with this schema.
SerializeWith(schema, raw_arguments) ==
    LET model_instance == parameter_model(schema, raw_arguments) IN
    IF model_instance.ok
    THEN [exc |-> "", args |-> [n \in DOMAIN schema |-> dict(model_instance.fields[n])]]
    ELSE [exc |-> "ValidationError", args |-> NoArgs]

\* A deserialization that leaves null fields out.
DeserializeWith_DropNull(schema, serial_arguments) ==
    LET model_instance == parameter_model(schema, serial_arguments) IN
    IF model_instance.ok
    THEN [exc |-> "",
          args |-> [n \in {f \in DOMAIN schema : model_instance.fields[f] # NoneV} |->
                       model_instance.fields[n]]]
    ELSE [exc |-> "RpcArgumentException", args |-> NoArgs]

\* RpcMethodSignature.deserialize_arguments, for a signature with this schema:
\* the fields of the parsed model, or RpcArgumentException for any error.
DeserializeWith(schema, serial_arguments) ==
    LET model_instance == parameter_model(schema, serial_arguments) IN
    IF model_instance.ok
    THEN [exc |-> "", args |-> model_instance.fields]
    ELSE [exc |-> "RpcArgumentException", args |-> NoArgs]

\* The parameter model of method m of class c.
ParameterModel(c, m) == [n \in ParamNames |-> Required("int")]

\* A codec that lets any arguments through as they are.
serialize_arguments_Lenient(c, m, raw_arguments) ==
    [exc |-> "", args |-> raw_arguments]

\* serialize_arguments of the signature of (c, m).
serialize_arguments(c, m, raw_arguments) ==
    SerializeWith(ParameterModel(c, m), raw_arguments)

\* deserialize_arguments of the signature of (c, m).
deserialize_arguments(c, m, serial_arguments) ==
    DeserializeWith(ParameterModel(c, m), serial_arguments)

\* A void method that drops whatever value arrives.
deserialize_return_value_VoidIgnores(c, m, value) ==
    IF ReturnType(c, m) = "None" \/ value.t = "int"
    THEN [exc |-> "", value |-> IF ReturnType(c, m) = "None" THEN NoneV ELSE value]
    ELSE [exc |-> "ValidationError", value |-> NoneV]

\* deserialize_return_value of the signature of (c, m).
deserialize_return_value(c, m, value) ==
    IF ReturnType(c, m) = "None"
    THEN IF value # NoneV
         THEN [exc |-> "RpcResponseException", value |-> NoneV]
         ELSE [exc |-> "", value |-> NoneV]
    ELSE IF \/ value.t = "int"
            \/ value.t = "none" /\ ReturnType(c, m) = "Optional[int]"
    THEN [exc |-> "", value |-> value]
    ELSE [exc |-> "ValidationError", value |-> NoneV]

----------------------------------------------------------------------------
(* Region resolution *)

Regions == {"us", "de"}

\* What the method's RegionResolutionStrategy does with the arguments: it returns
\* a region, returns None, raises RegionMappingNotFound or raises something else.
ResolverOutcomes ==
    {[kind |-> "region", region |-> r] : r \in Regions}
    \cup {[kind |-> k, region |-> ""] : k \in {"None", "RegionMappingNotFound", "Exception"}}

ResolutionOk(region, halt) == [exc |-> "", region |-> region, is_early_halt |-> halt]
ResolutionRaise(e) == [exc |-> e, region |-> "", is_early_halt |-> FALSE]

\* A result that is never checked.
RegionResolutionResult_Unchecked(region, halt) == ResolutionOk(region, halt)

\* _RegionResolutionResult: __post_init__ refuses a missing region without halt.
RegionResolutionResult(region, halt) ==
    IF (region = "") # halt THEN ResolutionRaise("ValueError") ELSE ResolutionOk(region, halt)

\* A resolution that never halts early.
resolve_to_region_NeverHalt(c, m, outcome) ==
    IF outcome.kind \in {"region"}
    THEN ResolutionOk(outcome.region, FALSE)
    ELSE ResolutionRaise("RpcServiceUnimplementedException")

\* A resolution that halts early on every missing mapping.
resolve_to_region_AlwaysHalt(c, m, outcome) ==
    IF outcome.kind = "region"
    THEN ResolutionOk(outcome.region, FALSE)
    ELSE IF outcome.kind = "RegionMappingNotFound"
    THEN ResolutionOk("", TRUE)
    ELSE ResolutionRaise("RpcServiceUnimplementedException")

\* A resolution that halts an optional-return method on whatever goes wrong.
resolve_to_region_HaltOnAnyError(c, m, outcome) ==
    IF ~HasRegionResolution(c, m)
    THEN ResolutionRaise("RpcServiceSetupException")
    ELSE IF outcome.kind = "region"
    THEN ResolutionOk(outcome.region, FALSE)
    ELSE IF OptionalReturn(c, m)
    THEN ResolutionOk("", TRUE)
    ELSE ResolutionRaise("RpcServiceUnimplementedException")

resolve_to_region(c, m, outcome) ==
    IF ~HasRegionResolution(c, m)
    THEN ResolutionRaise("RpcServiceSetupException")
    ELSE LET inner ==
                 IF outcome.kind \in {"region", "None"}
                 THEN RegionResolutionResult(outcome.region, FALSE)
                 ELSE IF outcome.kind = "RegionMappingNotFound"
                 THEN IF OptionalReturn(c, m)
                      THEN RegionResolutionResult("", TRUE)
                      ELSE ResolutionRaise("RegionMappingNotFound")
                 ELSE ResolutionRaise("Exception")
         IN  \* except Exception: every error becomes RpcServiceUnimplementedException
             IF inner.exc # ""
             THEN ResolutionRaise("RpcServiceUnimplementedException")
             ELSE inner

----------------------------------------------------------------------------
(* Delegation *)

\* The nonlocal_class argument of create_delegation: none, or a partial
\* implementation that makes the methods in `impl` concrete.
NoNonlocal == [given |-> FALSE, impl |-> {}]
NonlocalClasses(c) ==
    {NoNonlocal}
    \cup IF c = "S1"
         THEN {[given |-> TRUE, impl |-> i] : i \in SUBSET _get_abstract_rpc_methods(c)}
         ELSE {}

\* A binding that forgets the monolith.
Constructor_HomeOnly(c, mode) ==
    IF mode = local_mode[c] THEN "local" ELSE "remote"

\* The constructor create_delegation chooses for `mode`:
\* _get_and_validate_local_implementation or create_remote_implementation.
Constructor(c, mode) ==
    IF mode = "MONOLITH" \/ mode = local_mode[c] THEN "local" ELSE "remote"

NoFacade ==
    [cls |-> "none", constructors |-> [mode \in SiloModes |-> "none"],
     nonlocal |-> NoNonlocal]

\* DelegatingRpcService(cls, constructors, cls._signatures)
DelegatingRpcService(c, nl) ==
    [cls |-> c, constructors |-> [mode \in SiloModes |-> Constructor(c, mode)],
     nonlocal |-> nl]

\* A remote implementation that overrides every abstract method.
should_generate_remote_method_Always(nl, m) == TRUE

should_generate_remote_method(nl, m) ==
    IF ~nl.given THEN TRUE ELSE m \notin nl.impl

\* A remote implementation that gives every RPC method a remote stub.
rpc_overrides_AllMethods(c, nl) == MethodNames

\* rpc_overrides of _create_remote_implementation: the methods given a remote stub.
rpc_overrides(c, nl) ==
    {m \in _get_abstract_rpc_methods(c) : should_generate_remote_method(nl, m)}

\* Who runs method m of the delegate built for (c, nl) by `constructor`:
\* the local implementation, a remote stub, the nonlocal class or the base class.
HandlerOf(c, nl, constructor, m) ==
    IF constructor = "local" THEN "local"
    ELSE IF m \in rpc_overrides(c, nl) THEN "remote"
    ELSE IF nl.given /\ m \in nl.impl THEN "nonlocal"
    ELSE "base"

----------------------------------------------------------------------------
(* The wire *)

\* django.urls.reverse("sentry-api-0-rpc-service", service_name, method_name)
PathOf(service_name, method_name) == <<"/", service_name, "/", method_name, "/">>

\* json.dumps({"meta": {}, "args": serial_arguments}).encode("utf-8")
JsonArgs(serial_arguments) ==
    IF "organization_id" \in DOMAIN serial_arguments
    THEN <<"organization_id", ":", serial_arguments["organization_id"].v>>
    ELSE <<>>
RequestBody(serial_arguments) ==
    <<"{", "meta", ":", "{", "}", ",", "args", ":", "{">>
        \o JsonArgs(serial_arguments) \o <<"}", "}">>

NoRequest == [path |-> <<>>, body |-> <<>>, tag |-> <<>>]
StatusCodes == {200, 400, 403, 500}

\* The settings of the process: in_test_environment() and
\* settings.SENTRY_CONTROL_ADDRESS (<<>> when unset).
TestEnv == [in_test |-> TRUE, control_address |-> <<>>]
Envs ==
    {TestEnv}
    \cup {[in_test |-> FALSE, control_address |-> a] : a \in {<<>>, <<"http://control">>}}

\* Region.address: the region "us" has one, the region "de" has none configured.
RegionAddress(region) == IF region = "us" THEN <<"http://us">> ELSE <<>>

AddressOk(a) == [exc |-> "", address |-> a]
AddressRaise == [exc |-> "RpcServiceSetupException", address |-> <<>>]

\* A transport that knows the control silo only.
address_ControlOnly(region) ==
    IF env.control_address = <<>> THEN AddressRaise ELSE AddressOk(env.control_address)

\* _RemoteSiloCall.address; region "" is the null region.
address(region) ==
    IF region = ""
    THEN IF env.control_address = <<>> THEN AddressRaise ELSE AddressOk(env.control_address)
    ELSE IF RegionAddress(region) = <<>> THEN AddressRaise ELSE AddressOk(RegionAddress(region))

\* The bodies an error response may carry in its "detail".
Details == {"d1", "d2"}
NoMessage == [text |-> "", status |-> 0, path |-> <<>>, detail |-> ""]

\* An error report that always tells what the remote silo said.
_raise_from_response_status_error_Verbose(in_test, path, status, detail) ==
    [text |-> "Error invoking rpc", status |-> status, path |-> path, detail |-> detail]

\* _raise_from_response_status_error: the message of the RpcRemoteException.
_raise_from_response_status_error(in_test, path, status, detail) ==
    IF in_test
    THEN IF status = 500
         THEN [text |-> "Error invoking rpc: check error logs for more details",
               status |-> 0, path |-> path, detail |-> ""]
         ELSE [text |-> "Error invoking rpc", status |-> status, path |-> path,
               detail |-> detail]
    ELSE IF status = 403
    THEN [NoMessage EXCEPT !.text = "Unauthorized service access"]
    ELSE IF status = 400
    THEN [NoMessage EXCEPT !.text = "Invalid service request"]
    ELSE [NoMessage EXCEPT !.text = "Service unavailable", !.status = status]

IdleCall ==
    [pc |-> "idle", key |-> "", cls |-> "none", method |-> "", kwargs |-> NoArgs,
     nonlocal |-> NoNonlocal, handler |-> "", resolved |-> "", region |-> "",
     serial |-> NoArgs, req |-> NoRequest, status |-> 0, value |-> NoneV,
     result |-> NoneV, exc |-> "", steps |-> <<>>, transport |-> 0,
     address |-> <<>>, detail |-> "", message |-> NoMessage]

EmptyRegistry == [k \in ServiceKeys |-> NoFacade]
NoneCreated == [k \in ServiceKeys |-> [cls |-> "none", nonlocal |-> NoNonlocal]]

----------------------------------------------------------------------------
(* The class statement of an RpcService subclass *)

\* What a parameter or return annotation can be: a concrete type, absent, a
\* string ("RpcThing"), or a type with a string nested in it (Optional["RpcThing"]).
\* A return annotation can also be None.
ParamAnnotations == {"type", "missing", "string", "nested"}
ReturnAnnotations == {"None", "type", "missing", "string", "nested"}

\* A method of the class: undecorated, @rpc_method or @regional_rpc_method.
MethodKinds == {"plain", "rpc", "regional"}
MethodDecls == [kind : MethodKinds, param : ParamAnnotations, ret : ReturnAnnotations]

\* The class attributes: key is a str, absent or something else; local_mode is a
\* SiloMode member, absent or something else.
KeyDecls == {"str", "missing", "int"}
LocalModeDecls == {"CONTROL", "REGION", "missing", "str"}

\* The class statements of the model: method "m1" is any method, and "m2", when
\* there, is a well-annotated RPC method.
SecondMethods ==
    {[kind |-> k, param |-> "type", ret |-> "type"] : k \in {"rpc", "regional"}}
MethodTables ==
    {[n \in {} |-> [kind |-> "plain", param |-> "type", ret |-> "type"]]}
    \cup [{"m1"} -> MethodDecls]
    \cup [{"m2"} -> SecondMethods]
    \cup {[n \in {"m1", "m2"} |-> IF n = "m1" THEN a ELSE b] :
              a \in MethodDecls, b \in SecondMethods}
Declarations == [key : KeyDecls, local_mode : LocalModeDecls, methods : MethodTables]

\* _get_all_rpc_methods: the names whose attribute carries the RPC-method mark.
_get_all_rpc_methods(d) == {n \in DOMAIN d.methods : d.methods[n].kind # "plain"}
_has_rpc_methods(d) == _get_all_rpc_methods(d) # {}

\* _validate_type_token
_validate_type_token(token) == IF token = "string" THEN "ValueError" ELSE ""

\* A parameter model built without looking at the annotation.
_create_parameter_model_Unchecked(md) == ""

\* _create_parameter_model: the exception building the model raises, "" if none.
_create_parameter_model(md) ==
    IF md.param = "missing" THEN "RpcServiceSetupException"
    ELSE IF _validate_type_token(md.param) # "" THEN "RpcServiceSetupException"
    ELSE ""

\* _create_return_model: None needs no model, a string is refused, and pydantic
\* finds no validator for the marker of an absent annotation.
_create_return_model(md) ==
    IF md.ret = "None" THEN ""
    ELSE IF _validate_type_token(md.ret) # "" THEN _validate_type_token(md.ret)
    ELSE IF md.ret = "missing" THEN "RuntimeError"
    ELSE ""

\* A signature that takes the decorator's word for it.
_extract_region_resolution_Unchecked(d, md) ==
    [exc |-> "", resolver |-> md.kind = "regional"]

\* _extract_region_resolution
_extract_region_resolution(d, md) ==
    LET has_resolver == md.kind = "regional"
        is_region_service == d.local_mode = "REGION"
    IN  IF has_resolver # is_region_service
        THEN [exc |-> "RpcServiceSetupException", resolver |-> FALSE]
        ELSE [exc |-> "", resolver |-> has_resolver]

NoSignature == [exc |-> "", resolver |-> FALSE, void |-> FALSE]

\* RpcMethodSignature.__init__: parameter model, return model, region resolution.
RpcMethodSignature(d, md) ==
    IF _create_parameter_model(md) # ""
    THEN [NoSignature EXCEPT !.exc = _create_parameter_model(md)]
    ELSE IF _create_return_model(md) # ""
    THEN [NoSignature EXCEPT !.exc = _create_return_model(md)]
    ELSE [exc |-> _extract_region_resolution(d, md).exc,
          resolver |-> _extract_region_resolution(d, md).resolver,
          void |-> md.ret = "None"]

NoSignatures == [n \in {} |-> NoSignature]
ClassOk(signatures) == [exc |-> "", signatures |-> signatures]
ClassRaise(e) == [exc |-> e, signatures |-> NoSignatures]

\* _create_signatures: any error of a signature becomes RpcServiceSetupException.
_create_signatures(d) ==
    IF \E n \in _get_all_rpc_methods(d) : RpcMethodSignature(d, d.methods[n]).exc # ""
    THEN ClassRaise("RpcServiceSetupException")
    ELSE ClassOk([n \in _get_all_rpc_methods(d) |-> RpcMethodSignature(d, d.methods[n])])

\* A class hook that asks for no attributes.
init_subclass_NoAttributeCheck(d) == _create_signatures(d)

\* RpcService.__init_subclass__
init_subclass(d) ==
    IF _has_rpc_methods(d) /\ d.key # "str"
    THEN ClassRaise("RpcServiceSetupException")
    ELSE IF _has_rpc_methods(d) /\ d.local_mode \notin SiloModes
    THEN ClassRaise("RpcServiceSetupException")
    ELSE _create_signatures(d)

NoDecl == [key |-> "missing", local_mode |-> "missing",
           methods |-> [n \in {} |-> [kind |-> "plain", param |-> "type", ret |-> "type"]]]
NoUse == [method |-> "", op |-> "", exc |-> ""]
NoDefn == [state |-> "pending", exc |-> "", signatures |-> NoSignatures,
           facade |-> FALSE, use |-> NoUse]

NoSchema == [n \in {} |-> Required("int")]
NoCodec == [schema |-> NoSchema, args |-> NoArgs, stage |-> "idle",
            serial |-> NoArgs, back |-> NoArgs, exc |-> ""]
NoEnvelope == [meta |-> NoArgs, value |-> NoneV]
NoInbound == [service |-> "", method |-> "", args |-> NoArgs, cls |-> "none", exc |-> "",
              deserialized |-> FALSE, invoked |-> "", result |-> NoneV,
              returned |-> FALSE, envelope |-> NoEnvelope]

----------------------------------------------------------------------------
(* The authenticator as a state machine: the configuration changes by key   *)
(* rotation, requests are signed, and signed or forged requests arrive.     *)

NoIssued == [tag |-> <<>>, signer |-> "none"]
NoAuthCall == [op |-> "none", tag |-> <<>>, exc |-> "", tagOut |-> <<>>, ok |-> FALSE]

\* The tags the arriving request may carry: the issued tag, and for every
\* configured secret the correct tag of the arriving request and its malformed
\* variants.
Manglings(digest) ==
    { Prefix \o digest,                               \* well formed
      <<"r", "p", "c", "1", ":">> \o digest,          \* another version
      digest,                                         \* no prefix
      <<"r", "p", "c", "0">> \o digest,               \* no separator
      Prefix,                                         \* empty digest
      Prefix \o <<"z">>,                              \* not hex
      Prefix \o digest \o <<":">>,                    \* trailing separator
      Prefix \o digest \o <<":", "0">>,               \* a third field
      Prefix \o <<":">> \o digest,                    \* doubled separator
      <<>> }                                          \* empty tag

InboundTags ==
    {issued.tag, Prefix \o <<"0", "0">>}
    \cup UNION {Manglings(HexDigest(secrets[i], SignatureInput(inReq.path, inReq.body))) :
                    i \in 1..Len(secrets)}

InitAuth ==
    /\ secrets \in SecretLists
    /\ outReq \in Requests
    /\ inReq \in Requests
    /\ issued = NoIssued
    /\ authCall = NoAuthCall
    /\ siloMode = "MONOLITH"
    /\ local_mode = [c \in ClassIds |-> "CONTROL"]
    /\ registry = EmptyRegistry
    /\ call = IdleCall
    /\ lastCreated = NoneCreated
    /\ env = TestEnv
    /\ IdleCommands
    /\ decl = NoDecl /\ defn = NoDefn /\ inbound = NoInbound /\ codec = NoCodec

\* Key rotation, first half: a new secret becomes the signer at index 0.
RotateIn(k) ==
    /\ k \notin Range(secrets)
    /\ Len(secrets) < MaxSecrets
    /\ secrets' = <<k>> \o secrets
    /\ authCall' = NoAuthCall
    /\ UNCHANGED <<outReq, inReq, issued, rpcVars, otherVars, cmdVars>>

\* Key rotation, second half: the secret at index i is taken out of the list.
Retire(i) ==
    /\ i \in 1..Len(secrets)
    /\ secrets' = SubSeq(secrets, 1, i - 1) \o SubSeq(secrets, i + 1, Len(secrets))
    /\ authCall' = NoAuthCall
    /\ UNCHANGED <<outReq, inReq, issued, rpcVars, otherVars, cmdVars>>

\* The process signs its outbound request.
Sign ==
    LET r == generate_request_signature(secrets, outReq.path, outReq.body) IN
    /\ authCall' = [op |-> "sign", tag |-> <<>>,
                    exc |-> r.exc, tagOut |-> r.tag, ok |-> FALSE]
    /\ issued' = IF r.exc = "" THEN [tag |-> r.tag, signer |-> secrets[1]] ELSE issued
    /\ UNCHANGED <<secrets, outReq, inReq, rpcVars, otherVars, cmdVars>>

\* The inbound request arrives carrying `tag` and is verified.
Verify(tag) ==
    LET r == compare_signature(secrets, inReq.path, inReq.body, tag) IN
    /\ authCall' = [op |-> "compare", tag |-> tag,
                    exc |-> r.exc, tagOut |-> <<>>, ok |-> r.ok]
    /\ UNCHANGED <<secrets, outReq, inReq, issued, rpcVars, otherVars, cmdVars>>

NextAuth ==
    \/ \E k \in Keys : RotateIn(k)
    \/ \E i \in 1..MaxSecrets : Retire(i)
    \/ Sign
    \/ \E tag \in InboundTags : Verify(tag)

SpecAuth == InitAuth /\ [][NextAuth]_vars

----------------------------------------------------------------------------
(* Delegation and the remote call as a state machine *)

\* The secret configurations of a process that makes calls.
RpcSecretLists == {<<>>, <<"k1">>}

Init ==
    /\ secrets \in RpcSecretLists
    /\ outReq = [path |-> <<>>, body |-> <<>>]
    /\ inReq = [path |-> <<>>, body |-> <<>>]
    /\ issued = NoIssued
    /\ authCall = NoAuthCall
    /\ siloMode \in SiloModes
    /\ local_mode \in LocalModeTables
    /\ registry = EmptyRegistry
    /\ call = IdleCall
    /\ lastCreated = NoneCreated
    /\ env \in Envs
    /\ IdleCommands
    /\ decl = NoDecl /\ defn = NoDefn /\ inbound = NoInbound /\ codec = NoCodec

Terminal == {"Done", "Failed"}

\* An error that leaves the call where it was, for the step to be tried again.
Fail_Resumable(c, e, step) == [c EXCEPT !.exc = e]

Fail(c, e, step) ==
    [c EXCEPT !.pc = "Failed", !.exc = e, !.steps = c.steps \o step]

\* A registration that keeps the facade a key already has.
create_delegation_FirstWins(c, nl) ==
    /\ registry' = IF registry[KeyOf(c)].cls = "none"
                   THEN [registry EXCEPT ![KeyOf(c)] = DelegatingRpcService(c, nl)]
                   ELSE registry
    /\ lastCreated' = [lastCreated EXCEPT ![KeyOf(c)] = [cls |-> c, nonlocal |-> nl]]
    /\ UNCHANGED <<cmdVars, authVars, otherVars, env, siloMode, local_mode, call>>

\* cls.create_delegation(nonlocal_class=nl)
create_delegation(c, nl) ==
    /\ registry' = [registry EXCEPT ![KeyOf(c)] = DelegatingRpcService(c, nl)]
    /\ lastCreated' = [lastCreated EXCEPT ![KeyOf(c)] = [cls |-> c, nonlocal |-> nl]]
    /\ UNCHANGED <<cmdVars, authVars, otherVars, env, siloMode, local_mode, call>>

\* A caller invokes facade.m(**kw) on the registered facade of key k. The facade
\* delegates to the implementation its constructor for the current silo mode
\* builds, and that implementation's method m runs.
Call(k, m, kw) ==
    LET facade == registry[k]
        handler == HandlerOf(facade.cls, facade.nonlocal,
                             facade.constructors[siloMode], m)
    IN  /\ call.pc \in Terminal \cup {"idle"}
        /\ facade.cls # "none"
        /\ call' = [IdleCall EXCEPT
                       !.key = k, !.cls = facade.cls, !.method = m, !.kwargs = kw,
                       !.nonlocal = facade.nonlocal, !.handler = handler,
                       !.pc = IF handler # "remote" THEN "Running"
                              ELSE IF local_mode[facade.cls] = "REGION" THEN "Resolving"
                              ELSE "Serializing"]
        /\ UNCHANGED <<cmdVars, authVars, otherVars, env, siloMode, local_mode, registry, lastCreated>>

\* A method that is not a remote stub runs in this process and returns.
RunLocal(result) ==
    /\ call.pc = "Running"
    /\ call' = [call EXCEPT !.pc = "Done", !.result = result]
    /\ UNCHANGED <<cmdVars, authVars, otherVars, env, siloMode, local_mode, registry, lastCreated>>

\* remote_method, lines 440-446: the region service resolves the call's region.
Resolve(outcome) ==
    LET r == resolve_to_region(call.cls, call.method, outcome) IN
    /\ call.pc = "Resolving"
    /\ call' =
          IF r.exc # ""
          THEN [Fail(call, r.exc, <<"resolve">>) EXCEPT !.resolved = outcome.kind]
          ELSE IF r.is_early_halt
          THEN [call EXCEPT !.pc = "Done", !.result = NoneV,
                            !.resolved = outcome.kind,
                            !.steps = call.steps \o <<"resolve">>]
          ELSE [call EXCEPT !.pc = "Serializing", !.region = r.region,
                            !.resolved = outcome.kind,
                            !.steps = call.steps \o <<"resolve">>]
    /\ UNCHANGED <<cmdVars, authVars, otherVars, env, siloMode, local_mode, registry, lastCreated>>

\* remote_method, line 448
Serialize ==
    LET r == serialize_arguments(call.cls, call.method, call.kwargs) IN
    /\ call.pc = "Serializing"
    /\ call' =
          IF r.exc # ""
          THEN Fail(call, r.exc, <<"serialize">>)
          ELSE [call EXCEPT !.pc = "Signing", !.serial = r.args,
                            !.steps = call.steps \o <<"serialize">>]
    /\ UNCHANGED <<cmdVars, authVars, otherVars, env, siloMode, local_mode, registry, lastCreated>>

\* A sender that signs the empty argument set whatever it sends.
SignAndSend_StaleBody ==
    LET data == RequestBody(call.serial)
        path == PathOf(call.key, call.method)
        r == generate_request_signature(secrets, path, RequestBody(NoArgs))
    IN  /\ call.pc = "Signing"
        /\ call' =
              IF r.exc # "" \/ (~env.in_test /\ address(call.region).exc # "")
              THEN Fail(call, "Exception", <<"sign">>)
              ELSE [call EXCEPT !.pc = "InFlight",
                                !.req = [path |-> path, body |-> data, tag |-> r.tag],
                                !.address = IF env.in_test THEN <<>>
                                            ELSE address(call.region).address,
                                !.steps = call.steps \o <<"sign", "transport">>,
                                !.transport = call.transport + 1]
        /\ UNCHANGED <<cmdVars, authVars, otherVars, env, siloMode, local_mode, registry, lastCreated>>

\* _send_to_remote_silo, lines 626-641: the body is encoded and signed and the
\* request is fired.
SignAndSend ==
    LET data == RequestBody(call.serial)
        path == PathOf(call.key, call.method)
        r == generate_request_signature(secrets, path, data)
        use_test_client == env.in_test
        target == address(call.region)
    IN  /\ call.pc = "Signing"
        /\ call' =
              IF r.exc # ""
              THEN Fail(call, r.exc, <<"sign">>)
              ELSE IF ~use_test_client /\ target.exc # ""
              THEN Fail(call, target.exc, <<"sign">>)
              ELSE [call EXCEPT !.pc = "InFlight",
                                !.req = [path |-> path, body |-> data, tag |-> r.tag],
                                !.address = IF use_test_client THEN <<>> ELSE target.address,
                                !.steps = call.steps \o <<"sign", "transport">>,
                                !.transport = call.transport + 1]
        /\ UNCHANGED <<cmdVars, authVars, otherVars, env, siloMode, local_mode, registry, lastCreated>>

\* A transport that sends the request once more after an error status.
Receive_RetryOnce(status, value, detail) ==
    /\ call.pc = "InFlight"
    /\ status # 200 => value = NoneV
    /\ status = 200 => detail = "d1"
    /\ call' =
          IF status = 200
          THEN [call EXCEPT !.pc = "Deserializing", !.status = status, !.value = value]
          ELSE IF call.transport < 2
          THEN [call EXCEPT !.status = status, !.transport = call.transport + 1,
                            !.steps = call.steps \o <<"transport">>]
          ELSE [Fail(call, "RpcRemoteException", <<>>) EXCEPT !.status = status]
    /\ UNCHANGED <<cmdVars, authVars, otherVars, env, siloMode, local_mode, registry, lastCreated>>

\* _send_to_remote_silo, lines 642-654: the response arrives.
Receive(status, value, detail) ==
    /\ call.pc = "InFlight"
    /\ status # 200 => value = NoneV
    /\ status = 200 => detail = "d1"
    /\ call' =
          IF status = 200
          THEN [call EXCEPT !.pc = "Deserializing", !.status = status, !.value = value]
          ELSE [Fail(call, "RpcRemoteException", <<>>) EXCEPT
                   !.status = status, !.detail = detail,
                   !.message = _raise_from_response_status_error(
                                   env.in_test, call.req.path, status, detail)]
    /\ UNCHANGED <<cmdVars, authVars, otherVars, env, siloMode, local_mode, registry, lastCreated>>

\* A dispatch that drops the service from the registry when the value is null.
Deserialize_Evicts ==
    /\ call.pc = "Deserializing"
    /\ call' = [call EXCEPT !.pc = "Done", !.result = call.value]
    /\ registry' = IF call.value = NoneV THEN [registry EXCEPT ![call.key] = NoFacade]
                   ELSE registry
    /\ UNCHANGED <<cmdVars, authVars, otherVars, env, siloMode, local_mode, lastCreated>>

\* _RemoteSiloCall.dispatch, lines 609-615: the service registered under the key
\* now deserializes the value, unless the value is null.
Deserialize ==
    LET service == registry[call.key]
        r == deserialize_return_value(service.cls, call.method, call.value)
    IN  /\ call.pc = "Deserializing"
        /\ call' =
              IF service.cls = "none"
              THEN Fail(call, "RpcResolutionException", <<>>)
              ELSE IF call.value = NoneV
              THEN [call EXCEPT !.pc = "Done", !.result = NoneV]
              ELSE IF r.exc # ""
              THEN Fail(call, r.exc, <<"deserialize">>)
              ELSE [call EXCEPT !.pc = "Done", !.result = r.value,
                                !.steps = call.steps \o <<"deserialize">>]
        /\ UNCHANGED <<cmdVars, authVars, otherVars, env, siloMode, local_mode, registry, lastCreated>>

Next ==
    \/ \E c \in ClassIds : \E nl \in NonlocalClasses(c) : create_delegation(c, nl)
    \/ \E k \in ServiceKeys, m \in MethodNames, kw \in Kwargs : Call(k, m, kw)
    \/ \E result \in Values : RunLocal(result)
    \/ \E outcome \in ResolverOutcomes : Resolve(outcome)
    \/ Serialize
    \/ SignAndSend
    \/ \E status \in StatusCodes, value \in Values, detail \in Details :
           Receive(status, value, detail)
    \/ Deserialize

Spec == Init /\ [][Next]_vars

\* The calls run synchronously: every step of a started remote call is taken,
\* and the transport answers.
SpecLive ==
    /\ Spec
    /\ WF_vars(\E outcome \in ResolverOutcomes : Resolve(outcome))
    /\ WF_vars(Serialize)
    /\ WF_vars(SignAndSend)
    /\ WF_vars(\E status \in StatusCodes, value \in Values, detail \in Details :
                   Receive(status, value, detail))
    /\ WF_vars(Deserialize)

----------------------------------------------------------------------------
(* Defining a service class, registering it and using its signatures *)

InitDefine ==
    /\ secrets = <<>>
    /\ outReq = [path |-> <<>>, body |-> <<>>]
    /\ inReq = [path |-> <<>>, body |-> <<>>]
    /\ issued = NoIssued
    /\ authCall = NoAuthCall
    /\ siloMode = "MONOLITH"
    /\ local_mode = [c \in ClassIds |-> "CONTROL"]
    /\ registry = EmptyRegistry
    /\ call = IdleCall
    /\ lastCreated = NoneCreated
    /\ env = TestEnv
    /\ IdleCommands
    /\ decl \in Declarations
    /\ defn = NoDefn
    /\ inbound = NoInbound /\ codec = NoCodec

\* The class statement runs: __init_subclass__ raises, or the class exists with
\* its signatures.
DefineClass ==
    LET r == init_subclass(decl) IN
    /\ defn.state = "pending"
    /\ defn' = [defn EXCEPT !.state = IF r.exc = "" THEN "defined" ELSE "failed",
                            !.exc = r.exc, !.signatures = r.signatures]
    /\ UNCHANGED <<cmdVars, authVars, rpcVars, decl, inbound, codec>>

\* create_delegation on the class, which can be called only if the class exists
\* and has the key and local_mode the function reads.
DelegateDeclared ==
    /\ defn.state = "defined"
    /\ decl.key = "str" /\ decl.local_mode \in SiloModes
    /\ ~defn.facade
    /\ defn' = [defn EXCEPT !.facade = TRUE]
    /\ UNCHANGED <<cmdVars, authVars, rpcVars, decl, inbound, codec>>

\* The first (de)serialization through the signature of method n: pydantic
\* refuses a field whose type still holds an unresolved reference.
UseSignature(n, op) ==
    /\ defn.facade
    /\ n \in DOMAIN defn.signatures
    /\ defn' = [defn EXCEPT !.use =
                   [method |-> n, op |-> op,
                    exc |-> IF \/ op = "serialize_arguments" /\ decl.methods[n].param = "nested"
                               \/ op = "deserialize_return_value" /\ decl.methods[n].ret = "nested"
                            THEN "ConfigError" ELSE ""]]
    /\ UNCHANGED <<cmdVars, authVars, rpcVars, decl, inbound, codec>>

NextDefine ==
    \/ DefineClass
    \/ DelegateDeclared
    \/ \E n \in {"m1", "m2"}, op \in {"serialize_arguments", "deserialize_return_value"} :
           UseSignature(n, op)

SpecDefine == InitDefine /\ [][NextDefine]_vars

----------------------------------------------------------------------------
(* The argument codec applied to signatures and argument sets *)

\* The parameter models of the model: "x" is any field, "y" an optional one.
XFields ==
    {Required(type) : type \in FieldTypes}
    \cup {WithDefault("int", IntV), WithDefault("Optional[int]", NoneV)}
Schemas ==
    {NoSchema}
    \cup [{"x"} -> XFields]
    \cup {[n \in {"x", "y"} |-> IF n = "x" THEN f ELSE WithDefault("Optional[int]", NoneV)] :
              f \in XFields}

\* The argument sets: values for "x" and "y", and an undeclared "z".
ArgSets ==
    UNION {[d -> ArgValues] : d \in SUBSET {"x", "y"}}
    \cup UNION {{[n \in d \cup {"z"} |-> IF n = "z" THEN IntV ELSE a[n]] : a \in [d -> ArgValues]} :
                    d \in SUBSET {"x", "y"}}

InitCodec ==
    /\ secrets = <<>>
    /\ outReq = [path |-> <<>>, body |-> <<>>]
    /\ inReq = [path |-> <<>>, body |-> <<>>]
    /\ issued = NoIssued
    /\ authCall = NoAuthCall
    /\ siloMode = "MONOLITH"
    /\ local_mode = [c \in ClassIds |-> "CONTROL"]
    /\ registry = EmptyRegistry
    /\ call = IdleCall
    /\ lastCreated = NoneCreated
    /\ env = TestEnv
    /\ IdleCommands
    /\ decl = NoDecl /\ defn = NoDefn /\ inbound = NoInbound
    /\ codec \in {[NoCodec EXCEPT !.schema = sc, !.args = a, !.stage = "start"] :
                      sc \in Schemas, a \in ArgSets}

\* The caller's side: serialize_arguments on the argument set.
CodecSerialize ==
    LET r == SerializeWith(codec.schema, codec.args) IN
    /\ codec.stage = "start"
    /\ codec' = [codec EXCEPT !.stage = IF r.exc = "" THEN "serialized" ELSE "serialize_failed",
                              !.serial = r.args, !.exc = r.exc]
    /\ UNCHANGED <<cmdVars, authVars, rpcVars, decl, defn, inbound>>

\* The receiver's side: deserialize_arguments on what serialize_arguments made.
CodecDeserialize ==
    LET r == DeserializeWith(codec.schema, codec.serial) IN
    /\ codec.stage = "serialized"
    /\ codec' = [codec EXCEPT !.stage = IF r.exc = "" THEN "roundtrip" ELSE "roundtrip_failed",
                              !.back = r.args, !.exc = r.exc]
    /\ UNCHANGED <<cmdVars, authVars, rpcVars, decl, defn, inbound>>

\* deserialize_arguments on an argument set as it arrives from the wire.
CodecParse ==
    LET r == DeserializeWith(codec.schema, codec.args) IN
    /\ codec.stage = "start"
    /\ codec' = [codec EXCEPT !.stage = IF r.exc = "" THEN "parsed" ELSE "parse_failed",
                              !.back = r.args, !.exc = r.exc]
    /\ UNCHANGED <<cmdVars, authVars, rpcVars, decl, defn, inbound>>

NextCodec == CodecSerialize \/ CodecDeserialize \/ CodecParse

SpecCodec == InitCodec /\ [][NextCodec]_vars

----------------------------------------------------------------------------
(* Inbound dispatch to a registered service *)

\* Names a request may give as its method: the RPC methods, a property the
\* facade class defines, and a name nothing has.
MethodKeys == MethodNames \cup {"local_mode", "nope"}
FacadeAttributes == MethodNames \cup {"local_mode"}
\* Names a request may give as its service.
InboundServiceKeys == ServiceKeys \cup {"zz"}
\* Argument sets a request may carry.
WireArgs ==
    {NoArgs, [organization_id |-> IntV], [organization_id |-> StrV],
     [organization_id |-> IntV, bogus |-> IntV]}

\* Containers a method may return: a dict (its values, in key order) and a tuple.
MapV(items) == [t |-> "map", items |-> items]
TupleV(items) == [t |-> "tuple", items |-> items]
ReturnValues ==
    {NoneV, StrV, ModelV,
     ListV(<<IntV, ModelV>>), MapV(<<ListV(<<ModelV>>), NoneV>>),
     ListV(<<ListV(<<TupleV(<<ModelV, IntV>>)>>)>>)}
\* What the invoked method does: it returns a value or raises.
MethodOutcomes ==
    {[exc |-> "", value |-> v] : v \in ReturnValues}
    \cup {[exc |-> "Exception", value |-> NoneV]}

\* A conversion that looks at the returned value itself only.
result_to_dict_Shallow(value) == IF value = ModelV THEN DictV ELSE value

\* result_to_dict: an RpcModel is dumped, the values of a dict and the items of
\* any other iterable but a str are converted in turn, other values stay.
RECURSIVE result_to_dict(_)
result_to_dict(value) ==
    IF value = ModelV THEN DictV
    ELSE IF value.t = "map"
    THEN MapV([i \in 1..Len(value.items) |-> result_to_dict(value.items[i])])
    ELSE IF value.t \in {"list", "tuple"}
    THEN ListV([i \in 1..Len(value.items) |-> result_to_dict(value.items[i])])
    ELSE value

LookupOk(cls) == [exc |-> "", cls |-> cls]
LookupRaise(e) == [exc |-> e, cls |-> "none"]

\* _look_up_service_method
_look_up_service_method(service_name, method_name) ==
    IF service_name \notin ServiceKeys THEN LookupRaise("RpcResolutionException")
    ELSE IF registry[service_name].cls = "none" THEN LookupRaise("RpcResolutionException")
    ELSE IF method_name \notin FacadeAttributes THEN LookupRaise("RpcResolutionException")
    ELSE LookupOk(registry[service_name].cls)

\* A facade that hands the arguments on as they came.
deserialize_rpc_arguments_Unvalidated(c, method_name, serial_arguments) ==
    IF method_name \notin MethodNames
    THEN [exc |-> "KeyError", args |-> NoArgs]
    ELSE [exc |-> "", args |-> serial_arguments]

\* DelegatingRpcService.deserialize_rpc_arguments: the signature is looked up by
\* name in the facade's signatures, then deserializes.
deserialize_rpc_arguments(c, method_name, serial_arguments) ==
    IF method_name \notin MethodNames
    THEN [exc |-> "KeyError", args |-> NoArgs]
    ELSE deserialize_arguments(c, method_name, serial_arguments)

dispatch_to_local_service(service_name, method_name, serial_arguments, outcome) ==
    LET found == _look_up_service_method(service_name, method_name)
        facade == registry[service_name]
        raw_arguments == deserialize_rpc_arguments(found.cls, method_name, serial_arguments)
        request == [NoInbound EXCEPT !.service = service_name, !.method = method_name,
                                     !.args = serial_arguments]
    IN  /\ (found.exc # "" \/ raw_arguments.exc # "") => outcome = [exc |-> "", value |-> NoneV]
        /\ inbound' =
              IF found.exc # "" THEN [request EXCEPT !.exc = found.exc]
              ELSE IF raw_arguments.exc # ""
              THEN [request EXCEPT !.cls = found.cls, !.exc = raw_arguments.exc,
                                   !.deserialized = raw_arguments.exc # "KeyError"]
              ELSE [request EXCEPT
                       !.cls = found.cls,
                       !.deserialized = TRUE,
                       !.invoked = HandlerOf(facade.cls, facade.nonlocal,
                                             facade.constructors[siloMode], method_name),
                       !.exc = outcome.exc,
                       !.result = outcome.value,
                       !.returned = outcome.exc = "",
                       !.envelope = [meta |-> NoArgs,
                                     value |-> result_to_dict(outcome.value)]]
        /\ UNCHANGED <<cmdVars, authVars, rpcVars, decl, defn, codec>>

InitLocal ==
    /\ secrets = <<"k1">>
    /\ outReq = [path |-> <<>>, body |-> <<>>]
    /\ inReq = [path |-> <<>>, body |-> <<>>]
    /\ issued = NoIssued
    /\ authCall = NoAuthCall
    /\ siloMode \in SiloModes
    /\ local_mode \in LocalModeTables
    /\ registry = EmptyRegistry
    /\ call = IdleCall
    /\ lastCreated = NoneCreated
    /\ env = TestEnv
    /\ IdleCommands
    /\ decl = NoDecl /\ defn = NoDefn /\ inbound = NoInbound /\ codec = NoCodec

NextLocal ==
    \/ \E c \in ClassIds : \E nl \in NonlocalClasses(c) : create_delegation(c, nl)
    \/ \E service_name \in InboundServiceKeys, method_name \in MethodKeys,
          serial_arguments \in WireArgs, outcome \in MethodOutcomes :
           dispatch_to_local_service(service_name, method_name, serial_arguments, outcome)

SpecLocal == InitLocal /\ [][NextLocal]_vars

----------------------------------------------------------------------------
(* Registration, outbound calls and inbound dispatch in one process *)

\* A control silo process in production that knows the control address.
InitFrame ==
    /\ secrets = <<"k1">>
    /\ outReq = [path |-> <<>>, body |-> <<>>]
    /\ inReq = [path |-> <<>>, body |-> <<>>]
    /\ issued = NoIssued
    /\ authCall = NoAuthCall
    /\ siloMode = "CONTROL"
    /\ local_mode = [c \in ClassIds |-> IF c = "S3" THEN "CONTROL" ELSE "REGION"]
    /\ registry = EmptyRegistry
    /\ call = IdleCall
    /\ lastCreated = NoneCreated
    /\ env = [in_test |-> FALSE, control_address |-> <<"http://control">>]
    /\ IdleCommands
    /\ decl = NoDecl /\ defn = NoDefn /\ inbound = NoInbound /\ codec = NoCodec

\* A request for a local service arrives, with or without its argument; the
\* method returns None or raises.
InboundRequest ==
    \E service_name \in InboundServiceKeys, method_name \in MethodKeys,
       serial_arguments \in {NoArgs, [organization_id |-> IntV]},
       outcome \in {[exc |-> "", value |-> NoneV], [exc |-> "Exception", value |-> NoneV]} :
        dispatch_to_local_service(service_name, method_name, serial_arguments, outcome)

\* A caller invokes a method of a registered facade, with or without its argument.
OutboundCall ==
    \E k \in ServiceKeys, m \in MethodNames, kw \in {NoArgs, [organization_id |-> IntV]} :
        Call(k, m, kw)

NextFrame ==
    \/ \E c \in ClassIds : create_delegation(c, NoNonlocal)
    \/ OutboundCall
    \/ \E result \in Values : RunLocal(result)
    \/ \E outcome \in ResolverOutcomes : Resolve(outcome)
    \/ Serialize
    \/ SignAndSend
    \/ \E status \in StatusCodes, value \in Values, detail \in Details :
           Receive(status, value, detail)
    \/ Deserialize
    \/ InboundRequest

SpecFrame == InitFrame /\ [][NextFrame]_vars

----------------------------------------------------------------------------
(* The cleanup command *)

\* The models of the three deletion lists; "Additional" stands for an entry of
\* settings.ADDITIONAL_BULK_QUERY_DELETES.
BULK_QUERY_DELETES == <<"UserReport", "Additional">>
DELETES == <<"EventAttachment", "ArtifactBundle">>
DELETES_BY_PROJECT == <<"Group">>
CleanupModels == Range(BULK_QUERY_DELETES) \cup Range(DELETES) \cup Range(DELETES_BY_PROJECT)
\* The models sentry itself lists live in the region silo.
RegionModels == CleanupModels \ {"Additional"}

\* The projects in the database, by id, and the slugs that name them.
Projects == {"1", "2"}
\* Values of --project: absent, ids of a project and of none, a slug pair of a
\* project and of none, and a word that is neither.
ProjectOptions == {"", "1", "2", "9", "org/one", "org/none", "word"}

\* get_project: a number is taken as the id, a slug pair is looked up.
get_project(value) ==
    IF value \in {"1", "2", "9"} THEN value
    ELSE IF value = "org/one" THEN "1"
    ELSE "None"

\* is_filtered: the model is not available in this silo, or --router or --model
\* excludes it.
is_filtered(model) == model \in job.filtered

Query(list, model, project_id, how) ==
    [list |-> list, model |-> model, project_id |-> project_id, how |-> how]

\* cleanup, lines 280-297: outside the control silo --project is resolved, or
\* without it the node store is cleaned.
CleanupResolveProject ==
    /\ job.phase = "start"
    /\ job' = IF siloMode # "CONTROL"
              THEN IF job.project # ""
                   THEN [job EXCEPT
                            !.project_id = get_project(job.project),
                            !.deletes = SelectSeq(DELETES, LAMBDA m : m # "ArtifactBundle"),
                            !.phase = IF get_project(job.project) = "None"
                                      THEN "aborted" ELSE "bulk"]
                   ELSE [job EXCEPT !.nodestore = TRUE, !.deletes = DELETES, !.phase = "bulk"]
              ELSE [job EXCEPT !.deletes = DELETES, !.phase = "bulk"]
    /\ UNCHANGED <<cond, pool, grant, rules, authVars, rpcVars, otherVars, impl>>

\* cleanup, lines 299-313: the bulk queries are executed.
CleanupBulkQueryDeletes ==
    /\ job.phase = "bulk"
    /\ job' = [job EXCEPT
                  !.phase = "deletes",
                  !.queries = job.queries \cup
                      {Query("BULK_QUERY_DELETES", m, job.project_id, "execute") :
                           m \in {x \in Range(BULK_QUERY_DELETES) : ~is_filtered(x)}}]
    /\ UNCHANGED <<cond, pool, grant, rules, authVars, rpcVars, otherVars, impl>>

\* cleanup, lines 315-336: the chunks of every query are put on the task queue.
CleanupDeletes ==
    /\ job.phase = "deletes"
    /\ job' = [job EXCEPT
                  !.phase = "by_project",
                  !.queries = job.queries \cup
                      {Query("DELETES", m, job.project_id, "enqueue") :
                           m \in {x \in Range(job.deletes) : ~is_filtered(x)}}]
    /\ UNCHANGED <<cond, pool, grant, rules, authVars, rpcVars, otherVars, impl>>

\* cleanup, lines 338-372: outside the control silo, one query per project of
\* the project query and model of DELETES_BY_PROJECT.
CleanupDeletesByProject ==
    LET project_deletion_query ==
            IF siloMode = "CONTROL" THEN {}
            ELSE IF job.project # "" THEN {pr \in Projects : pr = job.project_id}
            ELSE Projects
        to_delete_by_project ==
            IF siloMode = "CONTROL" THEN {}
            ELSE {x \in Range(DELETES_BY_PROJECT) : ~is_filtered(x)}
    IN  /\ job.phase = "by_project"
        /\ job' = [job EXCEPT
                      !.phase = "done",
                      !.queries = job.queries \cup
                          {Query("DELETES_BY_PROJECT", m, pr, "enqueue") :
                               m \in to_delete_by_project, pr \in project_deletion_query}]
        /\ UNCHANGED <<cond, pool, grant, rules, authVars, rpcVars, otherVars, impl>>

InitCleanup ==
    /\ secrets = <<>>
    /\ outReq = [path |-> <<>>, body |-> <<>>]
    /\ inReq = [path |-> <<>>, body |-> <<>>]
    /\ issued = NoIssued
    /\ authCall = NoAuthCall
    /\ siloMode \in SiloModes
    /\ local_mode = [c \in ClassIds |-> "CONTROL"]
    /\ registry = EmptyRegistry
    /\ call = IdleCall
    /\ lastCreated = NoneCreated
    /\ env = TestEnv
    /\ impl = NoImpl
    /\ decl = NoDecl /\ defn = NoDefn /\ inbound = NoInbound /\ codec = NoCodec
    /\ cond = NoCond /\ pool = NoPool /\ grant = NoGrant /\ rules = NoRules
    /\ \E project \in ProjectOptions, filtered \in SUBSET CleanupModels :
           /\ siloMode = "CONTROL" => RegionModels \subseteq filtered
           /\ job = [NoJob EXCEPT !.phase = "start", !.project = project,
                                  !.filtered = filtered]

NextCleanup ==
    \/ CleanupResolveProject
    \/ CleanupBulkQueryDeletes
    \/ CleanupDeletes
    \/ CleanupDeletesByProject

SpecCleanup == InitCleanup /\ [][NextCleanup]_vars

----------------------------------------------------------------------------
(* The cleanup command's worker pool *)

\* --concurrency: the number of worker processes started.
Concurrencies == {1, 2}
\* The capacity of task_queue, Queue(1000) in the command.
QueueSize == 2

\* _STOP_WORKER and a deletion chunk, as items of the queue; `id` tells the
\* puts apart.
StopItem(id) == [id |-> id, stop |-> TRUE]
ChunkItem(id) == [id |-> id, stop |-> FALSE]

\* What handling a chunk does in the worker: import_string raises, the deletion
\* task raises, or the chunk is deleted.
ChunkOutcomes == {"import_raises", "delete_raises", "deleted"}

\* Queue.put: blocks while the queue is full; counts the item as unfinished.
put(item) ==
    [pool EXCEPT !.queue = Append(pool.queue, item), !.next = pool.next + 1,
                 !.unfinished = pool.unfinished + 1]

\* Queue.task_done by a worker for the item it took.
task_done(p, id) ==
    [p EXCEPT !.acked = Append(p.acked, id), !.unfinished = p.unfinished - 1]

Others == <<job, cond, grant, rules, authVars, rpcVars, otherVars, impl>>

\* cleanup, lines 326-333 and 361-370: a chunk of a query is put on the queue.
MainPut ==
    /\ pool.pc = "body"
    /\ pool.chunks < MaxChunks
    /\ Len(pool.queue) < QueueSize
    /\ pool' = [put(ChunkItem(pool.next)) EXCEPT !.chunks = pool.chunks + 1]
    /\ UNCHANGED Others

\* cleanup, lines 335 and 375: task_queue.join() returns when nothing is
\* unfinished; after the join of the DELETES loop the per-project deletes
\* follow, after the last join the body ends.
MainJoin ==
    /\ pool.pc = "body"
    /\ pool.unfinished = 0
    /\ pool' = IF pool.stage = 1 THEN [pool EXCEPT !.stage = 2]
               ELSE [pool EXCEPT !.pc = "finally"]
    /\ UNCHANGED Others

\* The body raises: click.Abort for a project that is not found, or any other
\* exception.
MainRaise ==
    /\ pool.pc = "body"
    /\ pool' = [pool EXCEPT !.pc = "finally", !.raised = TRUE]
    /\ UNCHANGED Others

\* cleanup, lines 386-387: one _STOP_WORKER per process of the pool.
MainStop ==
    /\ pool.pc = "finally"
    /\ pool.sentinels < pool.concurrency
    /\ Len(pool.queue) < QueueSize
    /\ pool' = [put(StopItem(pool.next)) EXCEPT !.sentinels = pool.sentinels + 1]
    /\ UNCHANGED Others

\* cleanup, lines 390-391: p.join() returns once the process has ended, by
\* returning or by an exception.
MainJoinWorker ==
    /\ pool.pc = "finally"
    /\ pool.sentinels = pool.concurrency
    /\ pool.worker[pool.joined + 1].pc \in {"returned", "dead"}
    /\ pool' = [pool EXCEPT !.joined = pool.joined + 1,
                            !.pc = IF pool.joined + 1 = pool.concurrency
                                   THEN "done" ELSE "finally"]
    /\ UNCHANGED Others

\* multiprocess_worker, lines 77-81: the worker takes the next item; a stop
\* sentinel is acknowledged and the worker returns.
WorkerGet(w) ==
    LET j == Head(pool.queue)
        got == [pool EXCEPT !.queue = Tail(pool.queue), !.taken = pool.taken \cup {j.id}]
    IN  /\ w \in 1..pool.concurrency
        /\ pool.worker[w].pc = "get"
        /\ pool.queue # <<>>
        /\ pool' = IF j.stop
                   THEN [task_done(got, j.id) EXCEPT
                            !.worker[w] = [pc |-> "returned", item |-> j.id]]
                   ELSE [got EXCEPT !.worker[w] = [pc |-> "chunk", item |-> j.id]]
        /\ UNCHANGED Others

\* multiprocess_worker, lines 83-99: the model is imported, then the deletion
\* task runs in a try whose finally acknowledges the item.
WorkerChunk(w, outcome) ==
    /\ w \in 1..pool.concurrency
    /\ pool.worker[w].pc = "chunk"
    /\ pool' = IF outcome = "import_raises"
               THEN [pool EXCEPT !.worker[w] = [pc |-> "dead", item |-> 0]]
               ELSE [task_done(pool, pool.worker[w].item) EXCEPT
                        !.worker[w] = [pc |-> "get", item |-> 0]]
    /\ UNCHANGED Others

\* cleanup, lines 153-161: the pool has been started and the body begins.
InitPool ==
    /\ secrets = <<>>
    /\ outReq = [path |-> <<>>, body |-> <<>>]
    /\ inReq = [path |-> <<>>, body |-> <<>>]
    /\ issued = NoIssued
    /\ authCall = NoAuthCall
    /\ siloMode = "REGION"
    /\ local_mode = [c \in ClassIds |-> "CONTROL"]
    /\ registry = EmptyRegistry
    /\ call = IdleCall
    /\ lastCreated = NoneCreated
    /\ env = TestEnv
    /\ impl = NoImpl
    /\ decl = NoDecl /\ defn = NoDefn /\ inbound = NoInbound /\ codec = NoCodec
    /\ job = NoJob /\ cond = NoCond /\ grant = NoGrant /\ rules = NoRules
    /\ \E concurrency \in Concurrencies :
           pool = [NoPool EXCEPT !.pc = "body", !.stage = 1, !.concurrency = concurrency,
                                 !.worker = [w \in 1..concurrency |->
                                                [pc |-> "get", item |-> 0]]]

NextPool ==
    \/ MainPut
    \/ MainJoin
    \/ MainRaise
    \/ MainStop
    \/ MainJoinWorker
    \/ \E w \in 1..pool.concurrency : WorkerGet(w)
    \/ \E w \in 1..pool.concurrency, outcome \in ChunkOutcomes : WorkerChunk(w, outcome)

SpecPool == InitPool /\ [][NextPool]_vars

----------------------------------------------------------------------------
(* Data conditions of the workflow engine *)

\* Python values a condition compares and returns: None, ints, a float, a
\* bool, a str, and a member of DetectorPriorityLevel (by its number).
PyNone == [t |-> "none", n |-> 0]
PyInt(n) == [t |-> "int", n |-> n]
PyStr(n) == [t |-> "str", n |-> n]
PyFloat(n) == [t |-> "float", n |-> n]
PyBool(n) == [t |-> "bool", n |-> n]
PriorityLevel(n) == [t |-> "level", n |-> n]

\* DetectorPriorityLevel: OK, LOW, MEDIUM, HIGH
DetectorPriorityLevels == {0, 25, 50, 75}

\* The members of Condition, by value
Condition == {"eq", "gte", "gt", "lte", "lt", "ne", "event_comparison"}
FILTER_VALUE_BY_CONDITIONS == {"event_comparison"}

\* What the `condition` and `type` columns may hold.
ConditionColumns == {"gt", "lt"}
TypeColumns == Condition \cup {"WorkflowCondition"}
\* The `comparison` column holds JSON: a number or a string of digits.
Comparisons == {PyInt(3), PyInt(5), PyStr(5)}
ConditionResults ==
    {PriorityLevel(75), PyInt(25), PyInt(7), PyFloat(1), PyBool(1), PyStr(1), PyNone}
\* The values a condition is evaluated on.
EvaluatedValues == {PyInt(1), PyInt(4), PyInt(5), PyInt(10)}

EvalOk(v) == [exc |-> "", value |-> v]
EvalRaise(e) == [exc |-> e, value |-> PyNone]

\* get_nested_value(value, path): an int has neither the attribute nor a get.
get_nested_value(value, path) == PyNone

\* condition_ops[key](a, b): ordering an int against a str or None raises
\* TypeError; equality across types is False.
condition_ops(key, a, b) ==
    IF key \in {"eq", "event_comparison"} THEN EvalOk(a = b)
    ELSE IF key = "ne" THEN EvalOk(a # b)
    ELSE IF a.t # "int" \/ b.t # "int" THEN EvalRaise("TypeError")
    ELSE IF key = "gt" THEN EvalOk(a.n > b.n)
    ELSE IF key = "gte" THEN EvalOk(a.n >= b.n)
    ELSE IF key = "lt" THEN EvalOk(a.n < b.n)
    ELSE EvalOk(a.n <= b.n)

\* DataCondition.get_condition_result
get_condition_result(condition_result) ==
    IF condition_result.t \in {"float", "bool"} THEN condition_result
    ELSE IF condition_result.t = "level" THEN condition_result
    ELSE IF condition_result.t = "int"
    THEN IF condition_result.n \in DetectorPriorityLevels
         THEN PriorityLevel(condition_result.n)
         ELSE condition_result
    ELSE PyNone

\* DataCondition.evaluate_value
evaluate_value(row, value) ==
    IF row.type \notin Condition THEN EvalOk(PyNone)
    ELSE LET v == IF row.type \in FILTER_VALUE_BY_CONDITIONS
                  THEN get_nested_value(value, row.condition)
                  ELSE value
             r == condition_ops(row.type, v, row.comparison)
         IN  IF r.exc # "" THEN r
             ELSE IF r.value THEN EvalOk(get_condition_result(row.condition_result))
             ELSE EvalOk(PyNone)

\* A caller evaluates the row on a value.
EvaluateValue(value) ==
    LET r == evaluate_value(cond, value) IN
    /\ cond.stage # "idle"
    /\ cond' = [cond EXCEPT !.stage = "evaluated", !.value = value,
                            !.exc = r.exc, !.result = r.value]
    /\ UNCHANGED <<job, pool, grant, rules, authVars, rpcVars, otherVars, impl>>

\* A caller asks for the row's result without evaluating.
GetConditionResult ==
    /\ cond.stage # "idle"
    /\ cond' = [cond EXCEPT !.stage = "asked", !.value = PyNone, !.exc = "",
                            !.result = get_condition_result(cond.condition_result)]
    /\ UNCHANGED <<job, pool, grant, rules, authVars, rpcVars, otherVars, impl>>

InitCondition ==
    /\ secrets = <<>>
    /\ outReq = [path |-> <<>>, body |-> <<>>]
    /\ inReq = [path |-> <<>>, body |-> <<>>]
    /\ issued = NoIssued
    /\ authCall = NoAuthCall
    /\ siloMode = "REGION"
    /\ local_mode = [c \in ClassIds |-> "CONTROL"]
    /\ registry = EmptyRegistry
    /\ call = IdleCall
    /\ lastCreated = NoneCreated
    /\ env = TestEnv
    /\ impl = NoImpl
    /\ decl = NoDecl /\ defn = NoDefn /\ inbound = NoInbound /\ codec = NoCodec
    /\ job = NoJob /\ pool = NoPool /\ grant = NoGrant /\ rules = NoRules
    /\ \E condition \in ConditionColumns, type \in TypeColumns,
          comparison \in Comparisons, condition_result \in ConditionResults :
           cond = [NoCond EXCEPT !.stage = "saved", !.condition = condition, !.type = type,
                                 !.comparison = comparison,
                                 !.condition_result = condition_result]

NextCondition ==
    \/ \E value \in EvaluatedValues : EvaluateValue(value)
    \/ GetConditionResult

SpecCondition == InitCondition /\ [][NextCondition]_vars

----------------------------------------------------------------------------
(* The refresh-token exchange *)

\* ApiApplication rows by client_id, and whether the application has a SentryApp.
ClientIds == {"c1", "c2", "c3", "cX"}
ApplicationOf(client_id) ==
    IF client_id = "c1" THEN "A1" ELSE IF client_id = "c2" THEN "A2"
    ELSE IF client_id = "c3" THEN "A3" ELSE "DoesNotExist"
HasSentryApp(application) == application \in {"A1", "A2"}

\* ApiToken rows by refresh_token, and the application of each.
RefreshTokens == {"r1", "r2", "r3", "rX"}
TokenOf(refresh_token) ==
    IF refresh_token = "r1" THEN "t1" ELSE IF refresh_token = "r2" THEN "t2"
    ELSE IF refresh_token = "r3" THEN "t3" ELSE "DoesNotExist"
TokenApplication(token) ==
    IF token = "t1" THEN "A1" ELSE IF token = "t2" THEN "A2" ELSE "A3"
StoredTokens == {"t1", "t2", "t3"}
NewToken == "t9"

\* Validator.run(install, client_id, user): the application and its sentry app
\* exist and the user and the installation belong to that app.
Validator_run(g) ==
    IF ApplicationOf(g.client_id) = "DoesNotExist" THEN "APIUnauthorized"
    ELSE IF ~HasSentryApp(ApplicationOf(g.client_id)) THEN "APIUnauthorized"
    ELSE IF ~g.checks THEN "APIUnauthorized"
    ELSE ""

\* A refresher that takes any token for the application's own.
_validate_token_belongs_to_app_Unchecked(g) == ""

\* Refresher._validate_token_belongs_to_app, with the lookups of the token and
\* application properties it makes.
_validate_token_belongs_to_app(g) ==
    IF TokenOf(g.refresh_token) = "DoesNotExist" THEN "APIUnauthorized"
    ELSE IF ApplicationOf(g.client_id) = "DoesNotExist" THEN "APIUnauthorized"
    ELSE IF TokenApplication(TokenOf(g.refresh_token)) # ApplicationOf(g.client_id)
    THEN "APIUnauthorized"
    ELSE ""

GrantFail(g, e) == [g EXCEPT !.stage = "failed", !.exc = e]
GrantOthers == <<job, cond, pool, rules, authVars, rpcVars, otherVars, impl>>

\* Refresher._validate
_validate ==
    LET v == Validator_run(grant)
        b == _validate_token_belongs_to_app(grant)
    IN  /\ grant.stage = "called"
        /\ grant' = IF v # "" THEN GrantFail(grant, v)
                    ELSE IF b # "" THEN GrantFail(grant, b)
                    ELSE [grant EXCEPT !.stage = "validated",
                                       !.steps = grant.steps \o <<"validate">>]
        /\ UNCHANGED GrantOthers

\* Refresher._delete_token
_delete_token ==
    /\ grant.stage = "validated"
    /\ grant' = IF TokenOf(grant.refresh_token) = "DoesNotExist"
                THEN GrantFail(grant, "APIUnauthorized")
                ELSE [grant EXCEPT !.stage = "deleted",
                                   !.tokens = grant.tokens \ {TokenOf(grant.refresh_token)},
                                   !.steps = grant.steps \o <<"delete">>]
    /\ UNCHANGED GrantOthers

\* Refresher._create_new_token
_create_new_token ==
    /\ grant.stage = "deleted"
    /\ grant' = IF ApplicationOf(grant.client_id) = "DoesNotExist"
                   \/ ~HasSentryApp(ApplicationOf(grant.client_id))
                THEN GrantFail(grant, "APIUnauthorized")
                ELSE [grant EXCEPT !.stage = "done",
                                   !.tokens = grant.tokens \cup {NewToken},
                                   !.api_token = IF grant.install THEN NewToken
                                                 ELSE grant.api_token,
                                   !.result = NewToken,
                                   !.steps = grant.steps \o <<"create">>]
    /\ UNCHANGED GrantOthers

\* Refresher.run(install, refresh_token, client_id, user) is called.
InitRefresher ==
    /\ secrets = <<>>
    /\ outReq = [path |-> <<>>, body |-> <<>>]
    /\ inReq = [path |-> <<>>, body |-> <<>>]
    /\ issued = NoIssued
    /\ authCall = NoAuthCall
    /\ siloMode = "CONTROL"
    /\ local_mode = [c \in ClassIds |-> "CONTROL"]
    /\ registry = EmptyRegistry
    /\ call = IdleCall
    /\ lastCreated = NoneCreated
    /\ env = TestEnv
    /\ impl = NoImpl
    /\ decl = NoDecl /\ defn = NoDefn /\ inbound = NoInbound /\ codec = NoCodec
    /\ job = NoJob /\ cond = NoCond /\ pool = NoPool /\ rules = NoRules
    /\ \E refresh_token \in RefreshTokens, client_id \in ClientIds,
          checks \in BOOLEAN, install \in BOOLEAN :
           grant = [NoGrant EXCEPT !.stage = "called", !.refresh_token = refresh_token,
                                   !.client_id = client_id, !.checks = checks,
                                   !.install = install, !.tokens = StoredTokens,
                                   !.api_token = IF TokenOf(refresh_token) = "DoesNotExist"
                                                 THEN "t1" ELSE TokenOf(refresh_token)]

NextRefresher ==
    \/ _validate
    \/ _delete_token
    \/ _create_new_token

SpecRefresher == InitRefresher /\ [][NextRefresher]_vars

----------------------------------------------------------------------------
(* Default rules of a new project *)

DEFAULT_RULE_LABEL == "Send a notification for new issues"
DEFAULT_RULE_LABEL_NEW == "Send a notification for high priority issues"

\* What a project_created signal carries and what the project's organization
\* and platform make of it: the default_rules argument, the feature
\* organizations:default-metric-alerts-new-projects, what create_metric_alert
\* does, and has_high_priority_issue_alerts(project).
ProjectSignals ==
    [project : {"p1", "p2"}, default_rules : BOOLEAN, feature : BOOLEAN,
     alert : {"created", "raises"}, high_priority : BOOLEAN]

Made(labels, alerts, exc) == [labels |-> labels, alerts |-> alerts, exc |-> exc]

\* A receiver that lets a failure of create_metric_alert through.
create_default_rules_AlertFirst(signal) ==
    IF ~signal.default_rules THEN Made(<<>>, 0, "")
    ELSE IF signal.feature /\ signal.alert = "raises" THEN Made(<<>>, 0, "Exception")
    ELSE Made(IF signal.high_priority THEN <<DEFAULT_RULE_LABEL_NEW>>
              ELSE <<DEFAULT_RULE_LABEL>>,
              IF signal.feature THEN 1 ELSE 0, "")

\* create_default_rules: the labels of the rules created, the metric alerts
\* created and the exception raised.
create_default_rules(signal) ==
    IF ~signal.default_rules THEN Made(<<>>, 0, "")
    ELSE LET alerts == IF signal.feature /\ signal.alert = "created" THEN 1 ELSE 0
         IN  IF signal.high_priority
             THEN Made(<<DEFAULT_RULE_LABEL_NEW>>, alerts, "")
             ELSE Made(<<DEFAULT_RULE_LABEL>>, alerts, "")

\* project_created is sent and the receiver runs.
ProjectCreated(signal) ==
    LET r == create_default_rules(signal) IN
    /\ rules.signals < MaxSignals
    /\ rules' = [signals |-> rules.signals + 1,
                 rule |-> rules.rule \o [i \in 1..Len(r.labels) |->
                                            [project |-> signal.project,
                                             label |-> r.labels[i]]],
                 alerts |-> rules.alerts + r.alerts,
                 made |-> r.labels, last |-> signal, exc |-> r.exc]
    /\ UNCHANGED <<job, cond, pool, grant, authVars, rpcVars, otherVars, impl>>

InitRules ==
    /\ secrets = <<>>
    /\ outReq = [path |-> <<>>, body |-> <<>>]
    /\ inReq = [path |-> <<>>, body |-> <<>>]
    /\ issued = NoIssued
    /\ authCall = NoAuthCall
    /\ siloMode = "REGION"
    /\ local_mode = [c \in ClassIds |-> "CONTROL"]
    /\ registry = EmptyRegistry
    /\ call = IdleCall
    /\ lastCreated = NoneCreated
    /\ env = TestEnv
    /\ impl = NoImpl
    /\ decl = NoDecl /\ defn = NoDefn /\ inbound = NoInbound /\ codec = NoCodec
    /\ job = NoJob /\ cond = NoCond /\ pool = NoPool /\ grant = NoGrant
    /\ rules = NoRules

NextRules == \E signal \in ProjectSignals : ProjectCreated(signal)

SpecRules == InitRules /\ [][NextRules]_vars

----------------------------------------------------------------------------
(* Validation of the local implementation *)

\* The abstract RPC methods of the base service, in the order of dir(cls), and
\* the parameter names each declares besides self.
AbstractMethods == <<"get", "update">>
DeclaredParameters(m) == IF m = "get" THEN {"organization_id"} ELSE {"organization_id", "name"}

\* What the implementation class makes of an abstract method: it overrides it
\* with a concrete method, leaves it abstract, or provides a method that still
\* carries __isabstractmethod__ (set past the class statement, or on a double).
MethodStates == {"concrete", "abstract", "flagged"}
\* The parameter names of the implementation's method, besides self.
ImplParameters(m) == {DeclaredParameters(m), DeclaredParameters(m) \cup {"extra"}, {}}
ImplMethods(m) == [state : MethodStates, params : ImplParameters(m)]
ImplClasses == {<<g, u>> : g \in ImplMethods("get"), u \in ImplMethods("update")}

ImplOk == [exc |-> "", delegate |-> "local"]
ImplRaise(e) == [exc |-> e, delegate |-> "none"]

\* cls.get_local_implementation(): the implementation class is instantiated;
\* RpcService is an abc.ABC, so a class that leaves a method abstract cannot be.
get_local_implementation(methods) ==
    IF \E i \in 1..Len(methods) : methods[i].state = "abstract"
    THEN ImplRaise("TypeError")
    ELSE ImplOk

\* The loop of _get_and_validate_local_implementation from method i on.
RECURSIVE validate_methods(_, _)
validate_methods(methods, i) ==
    IF i > Len(AbstractMethods) THEN ImplOk
    ELSE IF methods[i].state # "concrete" THEN ImplRaise("RpcServiceSetupException")
    ELSE IF DeclaredParameters(AbstractMethods[i]) # methods[i].params
    THEN ImplRaise("RpcServiceSetupException")
    ELSE validate_methods(methods, i + 1)

_get_and_validate_local_implementation(methods) ==
    LET got == get_local_implementation(methods) IN
    IF got.exc # "" THEN got ELSE validate_methods(methods, 1)

\* The facade of the base service S1 is used for the first time in this silo
\* mode and calls the constructor create_delegation chose for it.
BindDelegate ==
    /\ impl.stage = "created"
    /\ impl' = IF Constructor("S1", siloMode) = "local"
               THEN LET r == _get_and_validate_local_implementation(impl.methods) IN
                    [impl EXCEPT !.stage = "bound", !.exc = r.exc, !.delegate = r.delegate]
               ELSE [impl EXCEPT !.stage = "bound", !.delegate = "remote"]
    /\ UNCHANGED <<job, cond, pool, grant, rules, authVars, rpcVars, otherVars>>

\* The facade is used again: the delegate or the failure stays.
UseDelegate ==
    /\ impl.stage = "bound"
    /\ impl' = [impl EXCEPT !.stage = "used"]
    /\ UNCHANGED <<job, cond, pool, grant, rules, authVars, rpcVars, otherVars>>

InitImpl ==
    /\ secrets = <<>>
    /\ outReq = [path |-> <<>>, body |-> <<>>]
    /\ inReq = [path |-> <<>>, body |-> <<>>]
    /\ issued = NoIssued
    /\ authCall = NoAuthCall
    /\ siloMode \in SiloModes
    /\ local_mode = [c \in ClassIds |-> "CONTROL"]
    /\ registry = EmptyRegistry
    /\ call = IdleCall
    /\ lastCreated = NoneCreated
    /\ env = TestEnv
    /\ decl = NoDecl /\ defn = NoDefn /\ inbound = NoInbound /\ codec = NoCodec
    /\ job = NoJob /\ cond = NoCond /\ pool = NoPool /\ grant = NoGrant /\ rules = NoRules
    /\ \E methods \in ImplClasses : impl = [NoImpl EXCEPT !.stage = "created", !.methods = methods]

NextImpl ==
    \/ BindDelegate
    \/ UseDelegate

SpecImpl == InitImpl /\ [][NextImpl]_vars

----------------------------------------------------------------------------
(* Claims about delegation and the remote call, checked under Spec *)

\* The call went to a remote stub and its resolver raised RegionMappingNotFound.
MappingNotFound ==
    call.handler = "remote" /\ call.resolved = "RegionMappingNotFound"

\* C1: when a remote method of a region service is called, its resolver raises
\* RegionMappingNotFound and the method is declared optional-return, the call
\* returns None and has serialized nothing, signed nothing and sent nothing.
C1_EarlyHaltReturnsNone ==
    (MappingNotFound /\ OptionalReturn(call.cls, call.method)) =>
        /\ call.pc = "Done" /\ call.exc = "" /\ call.result = NoneV
        /\ call.steps = <<"resolve">>
        /\ call.serial = NoArgs /\ call.req = NoRequest
        /\ call.transport = 0

C1_Witness ==
    /\ MappingNotFound /\ OptionalReturn(call.cls, call.method)
    /\ call.pc = "Done" /\ call.kwargs # NoArgs

\* C2: when a remote method of a region service is called, its resolver raises
\* RegionMappingNotFound and the method is not declared optional-return, the call
\* fails with RpcServiceUnimplementedException and has sent nothing.
C2_MappingNotFoundIsUnavailable ==
    (MappingNotFound /\ ~OptionalReturn(call.cls, call.method)) =>
        /\ call.pc = "Failed" /\ call.exc = "RpcServiceUnimplementedException"
        /\ call.steps = <<"resolve">>
        /\ call.req = NoRequest
        /\ call.transport = 0

C2_Witness ==
    /\ MappingNotFound /\ ~OptionalReturn(call.cls, call.method)
    /\ local_mode[call.cls] = "REGION"
    /\ call.pc = "Failed"

\* C3: for every silo mode, the facade create_delegation builds binds the local
\* implementation exactly when the mode is MONOLITH or the contract's
\* local_mode, and the remote-dispatching one otherwise; the binding depends on
\* nothing else, so every facade of a contract binds alike and every call is
\* served by the kind of delegate its silo mode determines.
C3_DelegateByMode ==
    /\ \A k \in ServiceKeys : registry[k].cls # "none" =>
          \A mode \in SiloModes :
              registry[k].constructors[mode] =
                  IF mode = "MONOLITH" \/ mode = local_mode[registry[k].cls]
                  THEN "local" ELSE "remote"
    /\ call.pc # "idle" =>
          (call.handler = "local"
              <=> (siloMode = "MONOLITH" \/ siloMode = local_mode[call.cls]))

C3_Witness ==
    /\ call.pc = "Done" /\ call.handler = "local"
    /\ siloMode = "MONOLITH" /\ local_mode[call.cls] = "REGION"
    /\ registry[call.key].nonlocal.given

\* C4: outside the home silo, an abstract RPC method is a remote stub exactly when
\* no nonlocal_class is supplied or the nonlocal_class leaves it abstract; a
\* method the nonlocal_class implements runs there and sends nothing.
C4_PartialOverride ==
    (call.pc # "idle" /\ call.handler # "local" /\ IsAbstract(call.cls, call.method)) =>
        /\ call.handler = "remote"
              <=> (~call.nonlocal.given \/ call.method \notin call.nonlocal.impl)
        /\ (call.nonlocal.given /\ call.method \in call.nonlocal.impl) =>
              /\ call.handler = "nonlocal"
              /\ call.pc \in {"Running", "Done"}
              /\ call.steps = <<>> /\ call.req = NoRequest /\ call.transport = 0

C4_Witness ==
    /\ call.pc = "Done" /\ call.handler = "nonlocal"
    /\ call.method = "get" /\ call.nonlocal.impl = {"get"}

\* The remote silo answered the call with HTTP 200 and the call has ended.
Answered200 ==
    call.handler = "remote" /\ call.status = 200 /\ call.pc \in Terminal

\* C11: when a method declared to return None is called remotely and the
\* HTTP-200 envelope carries a non-null value, the call fails with
\* RpcResponseException: the value is not returned and no None stands in for it.
C11_VoidRejectsValue ==
    (Answered200 /\ ReturnType(call.cls, call.method) = "None" /\ call.value # NoneV) =>
        /\ call.pc = "Failed" /\ call.exc = "RpcResponseException"
        /\ call.result = NoneV

C11_Witness ==
    /\ Answered200 /\ call.method = "update" /\ call.value = IntV
    /\ call.pc = "Failed" /\ call.exc = "RpcResponseException"

\* The value fits the declared return annotation.
Conforms(rt, value) ==
    IF rt = "None" THEN value = NoneV
    ELSE IF rt = "Optional[int]" THEN value.t \in {"int", "none"}
    ELSE value.t = "int"

\* C12: an HTTP-200 response whose value does not conform to the declared return
\* schema always ends the call in failure and never returns a result, a null
\* value for a method whose return type does not admit null included.
C12_NonconformingValueFails ==
    (Answered200 /\ ~Conforms(ReturnType(call.cls, call.method), call.value)) =>
        call.pc = "Failed"

BadArgs ==
    /\ call.handler = "remote"
    /\ \E n \in ParamNames : n \notin DOMAIN call.kwargs \/ ~FieldOk(call.kwargs[n])

SerializeFailed ==
    BadArgs /\ call.pc = "Failed" /\ "serialize" \in Range(call.steps)

\* C19 as stated: a remote call whose arguments fail to serialize ends Failed
\* with an argument error of the RPC layer, unsigned and unsent.
C19_SerializeFailureIsRpcError ==
    SerializeFailed =>
        /\ call.exc = "RpcArgumentException"
        /\ call.req = NoRequest /\ call.transport = 0

\* C19, amended: a remote call whose arguments fail to serialize ends Failed
\* with pydantic's ValidationError as serialize_arguments raised it, and it is
\* never signed nor sent.
C19_SerializeFailureStopsCall ==
    BadArgs =>
        /\ call.pc \in {"Resolving", "Serializing", "Done", "Failed"}
        /\ call.pc = "Done" => call.resolved = "RegionMappingNotFound"
        /\ SerializeFailed => call.exc = "ValidationError"
        /\ call.pc = "Failed" => call.steps \in {<<"resolve">>, <<"serialize">>,
                                                 <<"resolve", "serialize">>}
        /\ call.req = NoRequest /\ call.transport = 0

C19_Witness ==
    /\ SerializeFailed /\ call.exc = "ValidationError"
    /\ call.kwargs \in {NoArgs, [organization_id |-> StrV]}
    /\ call.steps = <<"resolve", "serialize">>

\* C17: after any sequence of create_delegation calls every registered key maps
\* to one facade, the one the latest create_delegation for that key built, and a
\* registration changes the entry of no other key.
C17_LastWriterWins ==
    /\ [](\A k \in ServiceKeys :
             registry[k] = IF lastCreated[k].cls = "none" THEN NoFacade
                           ELSE DelegatingRpcService(lastCreated[k].cls,
                                                     lastCreated[k].nonlocal))
    /\ [][\A k \in ServiceKeys :
             lastCreated'[k] # lastCreated[k] =>
                 \A other \in ServiceKeys \ {k} : registry'[other] = registry[other]]_vars

C17_Witness ==
    /\ call.pc = "Done" /\ call.key = "a" /\ call.cls = "S1"
    /\ registry["a"].cls = "S2" /\ lastCreated["a"].cls = "S2"
    /\ registry["b"].cls = "S3"

\* C22: outside a test environment the RpcRemoteException of a non-200 response
\* says only "unauthorized" for 403, "invalid request" for 400 and "unavailable"
\* with the status otherwise: responses that differ in their bodies alone give
\* the same exception, and nothing of the body is in it.
C22_ProductionMessageHidesDetail ==
    /\ \A path \in {PathOf(k, m) : k \in ServiceKeys, m \in MethodNames} :
       \A status \in StatusCodes \ {200} : \A d1, d2 \in Details :
           _raise_from_response_status_error(FALSE, path, status, d1)
               = _raise_from_response_status_error(FALSE, path, status, d2)
    /\ (call.exc = "RpcRemoteException" /\ ~env.in_test) =>
          /\ call.message.detail = "" /\ call.message.path = <<>>
          /\ call.message.text =
                 IF call.status = 403 THEN "Unauthorized service access"
                 ELSE IF call.status = 400 THEN "Invalid service request"
                 ELSE "Service unavailable"
          /\ call.message.status = IF call.status \in {400, 403} THEN 0 ELSE call.status

C22_Witness ==
    /\ call.exc = "RpcRemoteException" /\ ~env.in_test
    /\ call.status = 403 /\ call.detail = "d2"
    /\ call.message.text = "Unauthorized service access"

\* C26: in every remote dispatch that reaches the transport the steps are region
\* resolution (region services only), serialization, signing, transport and
\* return-value deserialization, in this order and each at most once, and the
\* tag sent is the signature of exactly the path and the body sent.
C26_StepOrderAndSignedBytes ==
    call.transport >= 1 =>
        LET first == IF local_mode[call.cls] = "REGION" THEN <<"resolve">> ELSE <<>> IN
        /\ call.steps \in
               {first \o <<"serialize", "sign", "transport">>,
                first \o <<"serialize", "sign", "transport", "deserialize">>}
        /\ call.req.path = PathOf(call.key, call.method)
        /\ call.req.body = RequestBody(call.serial)
        /\ secrets # <<>>
        /\ call.req.tag =
               Prefix \o HexDigest(secrets[1], call.req.path \o <<":">> \o call.req.body)

C26_Witness ==
    /\ call.pc = "Done" /\ call.transport = 1
    /\ call.steps = <<"resolve", "serialize", "sign", "transport", "deserialize">>
    /\ call.result = IntV

\* The address the call needs is not configured.
AddressMissing ==
    /\ call.handler = "remote" /\ ~env.in_test
    /\ (IF call.region = "" THEN env.control_address ELSE RegionAddress(call.region)) = <<>>

\* C27: over the real transport a remote call is sent to the control silo's
\* address when its region is null and to the region's address otherwise; when
\* that address is not configured the call fails with RpcServiceSetupException
\* and no request is sent.
C27_AddressByRegion ==
    /\ (call.transport >= 1 /\ ~env.in_test) =>
          /\ call.address # <<>>
          /\ call.address = IF call.region = "" THEN env.control_address
                            ELSE RegionAddress(call.region)
    /\ AddressMissing =>
          /\ call.transport = 0 /\ call.req = NoRequest /\ call.address = <<>>
          /\ call.pc \notin {"InFlight", "Deserializing"}
          /\ call.pc = "Done" => call.resolved = "RegionMappingNotFound"
          /\ (call.pc = "Failed" /\ secrets # <<>> /\ "sign" \in Range(call.steps)) =>
                 call.exc = "RpcServiceSetupException"

C27_Witness ==
    /\ AddressMissing /\ call.region = "de"
    /\ call.pc = "Failed" /\ call.exc = "RpcServiceSetupException"
    /\ call.steps = <<"resolve", "serialize", "sign">>

\* C28: in every remote call that reaches the transport the region is null
\* exactly when the service's local_mode is not REGION: a resolver that returns
\* no region stops the call before the transport, and the call of a non-region
\* service resolves nothing.
C28_RegionIffRegionService ==
    call.handler = "remote" =>
        /\ call.transport >= 1 => (call.region = "" <=> local_mode[call.cls] # "REGION")
        /\ call.resolved = "None" => (call.pc = "Failed" /\ call.transport = 0)
        /\ local_mode[call.cls] # "REGION" =>
               (call.resolved = "" /\ "resolve" \notin Range(call.steps))

C28_Witness ==
    /\ call.handler = "remote" /\ call.resolved = "None"
    /\ call.pc = "Failed" /\ call.exc = "RpcServiceUnimplementedException"

\* A remote call that has not ended.
RemoteInProgress == call.handler = "remote" /\ call.pc \notin Terminal

\* C29: every remote dispatch, if the transport answers, ends either Done with
\* a value or None, or Failed with an exception, and once ended takes no further
\* resolving, serializing, signing or transport step.
C29_RemoteCallTerminates ==
    /\ RemoteInProgress ~> (call.pc \in Terminal)
    /\ [](call.handler = "remote" =>
             /\ call.pc = "Done" => call.exc = ""
             /\ call.pc = "Failed" <=> call.exc # "")
    /\ [][(call.handler = "remote" /\ call.pc \in Terminal /\ call' # call) =>
             (call'.steps = <<>> /\ call'.transport = 0
                 /\ call'.pc \in {"Running", "Resolving", "Serializing"})]_vars

C29_Witness ==
    /\ call.handler = "remote" /\ call.pc = "Failed"
    /\ call.steps = <<"resolve", "serialize", "sign", "transport", "deserialize">>

----------------------------------------------------------------------------
(* Claims about class definition, checked under SpecDefine *)

\* The class statement failed and left nothing behind.
Rejected ==
    /\ defn.state = "failed" /\ defn.exc = "RpcServiceSetupException"
    /\ defn.signatures = NoSignatures /\ ~defn.facade /\ defn.use = NoUse

\* Some RPC method of the class has an annotation among `bad`.
HasAnnotation(d, bad) ==
    \E n \in _get_all_rpc_methods(d) : d.methods[n].param \in bad \/ d.methods[n].ret \in bad

C14_KeyAndLocalModeRequired ==
    defn.state # "pending" =>
        /\ (_has_rpc_methods(decl) /\ (decl.key # "str" \/ decl.local_mode \notin SiloModes))
               => Rejected
        /\ ~_has_rpc_methods(decl) => (defn.state = "defined" /\ defn.exc = "")

C14_Witness ==
    /\ Rejected
    /\ decl.key = "missing" /\ decl.local_mode = "CONTROL"
    /\ DOMAIN decl.methods = {"m1"}
    /\ decl.methods["m1"] = [kind |-> "rpc", param |-> "type", ret |-> "None"]

\* C15: every RPC method signature of a defined class has a region resolver
\* exactly when the class's local_mode is REGION; a class with a regional method
\* outside a region service, or a plain RPC method in one, fails with
\* RpcServiceSetupException when it is defined.
C15_ResolverIffRegionService ==
    /\ defn.state = "defined" =>
          /\ DOMAIN defn.signatures = _get_all_rpc_methods(decl)
          /\ \A n \in DOMAIN defn.signatures :
                 /\ defn.signatures[n].resolver <=> decl.local_mode = "REGION"
                 /\ defn.signatures[n].resolver <=> decl.methods[n].kind = "regional"
    /\ (/\ defn.state # "pending"
        /\ \E n \in _get_all_rpc_methods(decl) :
               (decl.methods[n].kind = "regional") # (decl.local_mode = "REGION"))
           => Rejected

C15_Witness ==
    /\ defn.state = "defined" /\ defn.facade
    /\ decl.local_mode = "REGION"
    /\ DOMAIN defn.signatures = {"m1", "m2"}
    /\ defn.signatures["m1"].resolver /\ defn.signatures["m2"].resolver

----------------------------------------------------------------------------
(* Claims about inbound dispatch, checked under SpecLocal *)

\* The request names a service that is not registered.
UnknownService ==
    inbound.service \notin ServiceKeys \/ registry[inbound.service].cls = "none"

\* C16: dispatch_to_local_service fails with RpcResolutionException, having
\* deserialized no arguments and invoked no method, whenever the service key is
\* not registered or the method key is not an RPC method of the service, a
\* method key that names another attribute of the facade included.
C16_UnknownNameIsResolutionError ==
    (inbound.service # "" /\ (UnknownService \/ inbound.method \notin MethodNames)) =>
        /\ inbound.exc = "RpcResolutionException"
        /\ ~inbound.deserialized /\ inbound.invoked = ""

\* The serialized arguments do not fit the method's parameter schema: the
\* parameter is missing or its value is no int and converts to none.
ViolatesSchema(args) ==
    \E n \in ParamNames : n \notin DOMAIN args \/ args[n] \notin {IntV, NumStrV}

\* C23: dispatch_to_local_service with serialized arguments that violate the
\* parameter schema of the method fails with RpcArgumentException and the method
\* is not invoked.
C23_BadWireArgumentsRejected ==
    (inbound.cls # "none" /\ inbound.method \in MethodNames
        /\ ViolatesSchema(inbound.args)) =>
        /\ inbound.exc = "RpcArgumentException"
        /\ inbound.invoked = "" /\ ~inbound.returned

C23_Witness ==
    /\ inbound.cls = "S1" /\ inbound.method = "get"
    /\ inbound.args = [organization_id |-> StrV]
    /\ inbound.exc = "RpcArgumentException" /\ inbound.invoked = ""

\* The value holds an RpcModel instance at some depth.
RECURSIVE HasModel(_)
HasModel(value) ==
    \/ value = ModelV
    \/ /\ value.t \in {"list", "tuple", "map"}
       /\ \E i \in 1..Len(value.items) : HasModel(value.items[i])

\* The plain form of a value: every RpcModel replaced by its dict, dicts kept
\* as dicts and every other iterable made a list.
RECURSIVE Plain(_)
Plain(value) ==
    IF value.t \in {"list", "tuple", "map"}
    THEN [t |-> IF value.t = "map" THEN "map" ELSE "list",
          items |-> [i \in 1..Len(value.items) |-> Plain(value.items[i])]]
    ELSE IF value.t = "model" THEN DictV
    ELSE value

\* C24: a successful dispatch_to_local_service returns the envelope
\* {meta: {}, value: v} where v is the method's return value with every RpcModel
\* at any depth of dict values and iterable items replaced by its dict; None
\* gives null and plain scalars come out unchanged.
C24_EnvelopeOfPlainValue ==
    inbound.returned =>
        /\ inbound.envelope = [meta |-> NoArgs, value |-> Plain(inbound.result)]
        /\ ~HasModel(inbound.envelope.value)
        /\ inbound.result \in {NoneV, IntV, StrV} => inbound.envelope.value = inbound.result

C24_Witness ==
    /\ inbound.returned
    /\ inbound.result = ListV(<<ListV(<<TupleV(<<ModelV, IntV>>)>>)>>)
    /\ inbound.envelope.value = ListV(<<ListV(<<ListV(<<DictV, IntV>>)>>)>>)

----------------------------------------------------------------------------
(* Claims about the argument codec, checked under SpecCodec *)

\* The value is of the declared type as it stands, without conversion.
TypeMatches(type, val) ==
    IF type = "int" THEN val = IntV
    ELSE IF type = "Optional[int]" THEN val \in {NoneV, IntV}
    ELSE IF type = "RpcThing" THEN val = ModelV
    ELSE val.t = "list" /\ \A i \in 1..Len(val.items) : val.items[i] = IntV

\* The argument set names every declared parameter and no other, each with a
\* value of the declared type.
Exact(schema, args) ==
    /\ DOMAIN args = DOMAIN schema
    /\ \A n \in DOMAIN schema : TypeMatches(schema[n].type, args[n])

\* C20 as stated: for every argument set the parameter schema accepts,
\* deserializing the serialized arguments gives back the same names with the
\* same values.
C20_RoundTripIsIdentity ==
    /\ codec.stage # "roundtrip_failed"
    /\ codec.stage = "roundtrip" => codec.back = codec.args

\* C20, amended: for every argument set the parameter schema accepts,
\* deserializing the serialized arguments succeeds and gives every declared
\* parameter and nothing else: a supplied value of the declared type comes back
\* as it was, null and list values included, an omitted parameter comes back
\* as its default, and an argument set that names exactly the declared
\* parameters with values of their types is accepted and comes back unchanged.
C20_RoundTripOfExactArguments ==
    /\ codec.stage # "roundtrip_failed"
    /\ (Exact(codec.schema, codec.args) /\ codec.stage # "start") =>
           codec.stage \notin {"serialize_failed", "parse_failed"}
    /\ codec.stage = "roundtrip" =>
          /\ DOMAIN codec.back = DOMAIN codec.schema
          /\ \A n \in DOMAIN codec.schema :
                 IF n \notin DOMAIN codec.args
                 THEN codec.back[n] = codec.schema[n].default
                 ELSE TypeMatches(codec.schema[n].type, codec.args[n]) =>
                          codec.back[n] = codec.args[n]
          /\ Exact(codec.schema, codec.args) => codec.back = codec.args

C20_Witness ==
    /\ codec.stage = "roundtrip"
    /\ DOMAIN codec.schema = {"x", "y"}
    /\ codec.schema["x"].type = "List[int]"
    /\ codec.args = [x |-> ListV(<<IntV>>), y |-> NoneV]
    /\ codec.back = codec.args

\* serialize_arguments has been applied to the argument set.
SerializeApplied == codec.stage \in {"serialized", "serialize_failed", "roundtrip"}

\* C21: serialize_arguments fails whenever the arguments name something that is
\* not a declared parameter or leave out a required one, and when it succeeds
\* its output has exactly the declared names, an omitted optional parameter
\* holding its default.
C21_ArgumentNamesValidated ==
    SerializeApplied =>
        /\ (\/ \E n \in DOMAIN codec.args : n \notin DOMAIN codec.schema
            \/ \E n \in DOMAIN codec.schema :
                   codec.schema[n].required /\ n \notin DOMAIN codec.args)
               => codec.stage = "serialize_failed"
        /\ codec.stage # "serialize_failed" =>
               /\ DOMAIN codec.serial = DOMAIN codec.schema
               /\ \A n \in DOMAIN codec.schema \ DOMAIN codec.args :
                      codec.serial[n] = codec.schema[n].default

----------------------------------------------------------------------------
(* Claims about shared state, checked under SpecFrame *)

\* C30: no step of an outbound call and no inbound dispatch, successful or not,
\* changes the service registry or a contract's class attributes and signature
\* table; the registry changes only in a create_delegation.
C30_CallsLeaveRegistryAlone ==
    [][/\ (call' # call \/ inbound' # inbound) =>
             (registry' = registry /\ lastCreated' = lastCreated
                 /\ local_mode' = local_mode /\ defn' = defn)
       /\ registry' # registry => lastCreated' # lastCreated]_vars

C30_Witness ==
    /\ call.pc = "Failed" /\ call.exc = "RpcRemoteException"
    /\ inbound.exc = "KeyError"
    /\ registry["a"].cls = "S2" /\ registry["b"].cls = "S3"

----------------------------------------------------------------------------
(* Claims about the cleanup command, checked under SpecCleanup *)

\* C25: when cleanup runs with --project resolving to project P, every bulk
\* delete query it executes or enqueues, from BULK_QUERY_DELETES, DELETES and
\* DELETES_BY_PROJECT, is restricted to project_id = P, in every silo mode.
C25_ProjectRestrictsEveryQuery ==
    (job.project # "" /\ get_project(job.project) # "None") =>
        \A q \in job.queries : q.project_id = get_project(job.project)

----------------------------------------------------------------------------
(* Claims about calls racing with registration, checked under Spec *)

\* The call ended in resolve_to_region with an early halt.
HaltedEarly == call.pc = "Done" /\ call.steps = <<"resolve">>

\* C35: a remote call halts early only when the resolver raised
\* RegionMappingNotFound and the method is optional-return. Any other exception
\* of the resolver, and a resolver that returns no region, fail the call with
\* RpcServiceUnimplementedException, also for an optional-return method, and
\* nothing is sent.
C35_EarlyHaltOnlyForMissingMapping ==
    (call.handler = "remote" /\ call.resolved # "") =>
        /\ HaltedEarly <=> (call.resolved = "RegionMappingNotFound"
                                /\ OptionalReturn(call.cls, call.method))
        /\ call.resolved \in {"Exception", "None"} =>
              /\ call.pc = "Failed" /\ call.exc = "RpcServiceUnimplementedException"
              /\ call.steps = <<"resolve">>
              /\ call.serial = NoArgs /\ call.req = NoRequest /\ call.transport = 0

C35_Witness ==
    /\ call.handler = "remote" /\ call.resolved = "None"
    /\ OptionalReturn(call.cls, call.method)
    /\ call.pc = "Failed" /\ call.exc = "RpcServiceUnimplementedException"

\* C31: a call uses one contract throughout: the class whose signature
\* deserializes the returned value is the class whose signature serialized the
\* arguments, whatever create_delegation runs on the key while the call is in
\* progress.
C31_OneContractPerCall ==
    [][(call.pc = "Deserializing" /\ call'.pc # "Deserializing") =>
           registry[call.key].cls = call.cls]_vars

----------------------------------------------------------------------------
(* Claims about concrete RPC methods, checked under SpecFrame *)

----------------------------------------------------------------------------
(* Claims about data conditions, checked under SpecCondition *)

\* C33: a DataCondition declared with condition "gt" and a number c as its
\* comparison yields its condition result when evaluated on a value greater
\* than c, and yields None when evaluated on a value that is not greater.
C33_GreaterThanCondition ==
    (cond.stage = "evaluated" /\ cond.condition = "gt" /\ cond.comparison.t = "int") =>
        /\ cond.exc = ""
        /\ cond.result = IF cond.value.n > cond.comparison.n
                         THEN get_condition_result(cond.condition_result)
                         ELSE PyNone

----------------------------------------------------------------------------
(* Claims about the cleanup worker pool, checked under SpecPool *)

\* The number of times item id has been acknowledged.
Acks(id) == Cardinality({i \in 1..Len(pool.acked) : pool.acked[i] = id})
\* Worker w is still handling item id.
Holds(w, id) == pool.worker[w].pc = "chunk" /\ pool.worker[w].item = id

\* C37: every item a worker takes from the queue, chunk or stop sentinel, is
\* acknowledged with task_done exactly once, whether handling the chunk
\* succeeds or raises at any step: never twice, and once the worker is through
\* with the item it has been acknowledged.
C37_EveryItemAcknowledgedOnce ==
    \A id \in pool.taken :
        /\ Acks(id) <= 1
        /\ (\A w \in 1..pool.concurrency : ~Holds(w, id)) => Acks(id) = 1

\* C38: when the command has left the cleanup body, normally or by an
\* exception, and has joined its workers, one stop sentinel per worker has been
\* put, every worker has taken exactly one sentinel and returned, and every
\* chunk put before has been handled.
C38_PoolShutsDown ==
    pool.pc = "done" =>
        /\ pool.sentinels = pool.concurrency
        /\ \A w \in 1..pool.concurrency : pool.worker[w].pc = "returned"
        /\ pool.queue = <<>> /\ pool.unfinished = 0

----------------------------------------------------------------------------
(* Claims about the refresh-token exchange, checked under SpecRefresher *)

\* The exchange must be refused: the refresh token or the client_id is unknown,
\* the token belongs to another application, or the application has no sentry app.
MustRefuse ==
    \/ TokenOf(grant.refresh_token) = "DoesNotExist"
    \/ ApplicationOf(grant.client_id) = "DoesNotExist"
    \/ ~HasSentryApp(ApplicationOf(grant.client_id))
    \/ TokenApplication(TokenOf(grant.refresh_token)) # ApplicationOf(grant.client_id)

----------------------------------------------------------------------------
(* Claims about default rules, checked under SpecRules *)

\* C40: for each project_created signal the receiver creates no Rule when
\* default_rules is false, and otherwise exactly one Rule for the project, the
\* high-priority-issues rule if has_high_priority_issue_alerts(project) and the
\* new-issues rule if not, whether or not the metric-alert feature is on and
\* whether create_metric_alert succeeds or raises; the receiver raises nothing.
C40_OneDefaultRulePerProject ==
    rules.signals > 0 =>
        /\ rules.exc = ""
        /\ rules.made = IF ~rules.last.default_rules THEN <<>>
                        ELSE IF rules.last.high_priority
                        THEN <<DEFAULT_RULE_LABEL_NEW>>
                        ELSE <<DEFAULT_RULE_LABEL>>
        /\ Len(rules.rule) >= Len(rules.made)
        /\ \A i \in 1..Len(rules.made) :
               rules.rule[Len(rules.rule) - Len(rules.made) + i] =
                   [project |-> rules.last.project, label |-> rules.made[i]]

C40_Witness ==
    /\ rules.signals = 2 /\ Len(rules.rule) = 2
    /\ rules.last.default_rules /\ rules.last.feature /\ rules.last.alert = "raises"
    /\ rules.last.high_priority
    /\ rules.rule[2] = [project |-> "p2", label |-> DEFAULT_RULE_LABEL_NEW]

----------------------------------------------------------------------------
(* Claims about the local implementation, checked under SpecImpl *)

\* The implementation provides, for every abstract RPC method, a concrete method
\* with the declared parameter names.
Implements(methods) ==
    \A i \in 1..Len(AbstractMethods) :
        /\ methods[i].state = "concrete"
        /\ methods[i].params = DeclaredParameters(AbstractMethods[i])

\* C36: in the home silo or the monolith, the local delegate is produced only
\* if the implementation provides a concrete method with the declared set of
\* parameter names for every abstract RPC method; otherwise
\* RpcServiceSetupException is raised and no local delegate is produced.
C36_LocalImplementationValidated ==
    (impl.stage \in {"bound", "used"} /\ Constructor("S1", siloMode) = "local") =>
        IF Implements(impl.methods)
        THEN impl.delegate = "local" /\ impl.exc = ""
        ELSE impl.delegate = "none" /\ impl.exc = "RpcServiceSetupException"

----------------------------------------------------------------------------
(* Claims about the request authenticator, checked under SpecAuth *)

Signed == authCall.op = "sign"
Compared == authCall.op = "compare"
\* The arriving request carries the tag this process issued.
CarriesIssued == Compared /\ issued.signer # "none" /\ authCall.tag = issued.tag

\* s and t are one byte apart: one byte replaced, inserted or removed.
OneByteApart(s, t) ==
    \/ /\ Len(s) = Len(t)
       /\ Cardinality({i \in 1..Len(s) : s[i] # t[i]}) = 1
    \/ \E i \in 1..Len(t) :
           s = SubSeq(t, 1, i - 1) \o SubSeq(t, i + 1, Len(t))
    \/ \E i \in 1..Len(s) :
           t = SubSeq(s, 1, i - 1) \o SubSeq(s, i + 1, Len(s))

\* C5: with a non-empty secret list, generate_request_signature(path, body)
\* returns "rpc0:" followed by the hex digest of path + ":" + body keyed by the
\* secret at index 0, and by no secret at another index.
C5_SignsWithFirstSecret ==
    (Signed /\ secrets # <<>>) =>
        /\ authCall.exc = ""
        /\ authCall.tagOut =
              <<"r", "p", "c", "0", ":">>
                  \o HexDigest(secrets[1], outReq.path \o <<":">> \o outReq.body)
        /\ \A i \in 2..Len(secrets) :
              authCall.tagOut #
                  <<"r", "p", "c", "0", ":">>
                      \o HexDigest(secrets[i], outReq.path \o <<":">> \o outReq.body)

C5_Witness ==
    Signed /\ Len(secrets) = 2 /\ authCall.exc = "" /\ Len(outReq.path) = 1

\* C6: a tag issued while secret s was at index 0 is accepted for the same path
\* and body in every later configuration that still lists s, at any index, and is
\* not accepted once s is off the list (compare_signature returns False, or raises
\* the setup exception when the list has become empty).
C6_RotationKeepsOldTagsValid ==
    (CarriesIssued /\ inReq = outReq) =>
        IF issued.signer \in Range(secrets)
        THEN authCall.exc = "" /\ authCall.ok
        ELSE ~authCall.ok

C6_Witness ==
    /\ CarriesIssued /\ inReq = outReq
    /\ Len(secrets) = 2 /\ secrets[2] = issued.signer
    /\ authCall.ok

\* C7: the tag issued for (path, body) is refused for a request whose path, or
\* whose body, is one byte apart from the signed one.
C7_TamperDetected ==
    (/\ CarriesIssued /\ secrets # <<>>
     /\ \/ inReq.body = outReq.body /\ OneByteApart(inReq.path, outReq.path)
        \/ inReq.path = outReq.path /\ OneByteApart(inReq.body, outReq.body))
    => (authCall.exc = "" /\ ~authCall.ok)

C7_Witness ==
    /\ CarriesIssued /\ issued.signer \in Range(secrets)
    /\ inReq.body = outReq.body /\ OneByteApart(inReq.path, outReq.path)
    /\ authCall.exc = "" /\ ~authCall.ok

\* C34: a tag binds the whole (path, body) pair: the tag issued for (path, body)
\* is refused for every request whose pair of path and body differs from it.
C34_TagBindsPathAndBody ==
    (CarriesIssued /\ secrets # <<>> /\ inReq # outReq) => ~authCall.ok

\* C8: with a secret configured, compare_signature returns False for every tag
\* that does not start with "rpc0:", also when the rest of the tag is the correct
\* digest of the request under a configured secret.
C8_VersionTokenRequired ==
    (Compared /\ secrets # <<>> /\ ~StartsWith(authCall.tag, <<"r", "p", "c", "0", ":">>))
    => (authCall.exc = "" /\ ~authCall.ok)

C8_Witness ==
    /\ Compared /\ secrets # <<>>
    /\ authCall.tag =
          <<"r", "p", "c", "1", ":">>
              \o HexDigest(secrets[1], inReq.path \o <<":">> \o inReq.body)
    /\ authCall.exc = "" /\ ~authCall.ok

\* C9: with no shared secret configured, generate_request_signature and
\* compare_signature raise RpcAuthenticationSetupException for every input;
\* neither returns a value.
C9_FailClosedWithoutSecret ==
    (secrets = <<>> /\ (Signed \/ Compared)) =>
        /\ authCall.exc = "RpcAuthenticationSetupException"
        /\ authCall.tagOut = <<>>
        /\ ~authCall.ok

C9_Witness ==
    /\ secrets = <<>> /\ Compared /\ issued.signer # "none"
    /\ authCall.tag = issued.tag
    /\ authCall.exc = "RpcAuthenticationSetupException"

\* C10: with a secret configured, compare_signature returns False or True for
\* every tag and never raises; in particular it returns False for a tag with a
\* further ':' after the "rpc0:" prefix.
C10_MalformedTagNeverRaises ==
    (Compared /\ secrets # <<>>) => authCall.exc = ""

====
